---- MODULE Spec2Model ----
(***************************************************************************)
(* Model of the recommendation core of painel360:                          *)
(*   recommendation_system.py  RecommendationSystem (cache, prompt,        *)
(*                             completion call, response parsing, entity   *)
(*                             resolution, adherence, course suggestions)  *)
(*   app.py                    main (construction of the system)           *)
(*   data_integration.py       DataIntegration (loading the spreadsheet,   *)
(*                             scraping the web, combining the solutions)  *)
(*   sebrae_scraper.py         SebraeScraper (scrape_all and the default   *)
(*                             solutions)                                  *)
(*                                                                         *)
(* Python strings that the code inspects character by character (response *)
(* texts, solution names) are sequences of one-character strings.  Python  *)
(* dicts are functions whose domain is the set of keys present.            *)
(***************************************************************************)
EXTENDS Naturals, Sequences, FiniteSets, TLC

\* ------------------------------------------------------------------------
\* Python string primitives, on sequences of one-character strings
\* ------------------------------------------------------------------------

NL == "\n"

\* str.isdigit / regex \d on one character
Digit == {"0", "1", "2", "3", "4", "5", "6", "7", "8", "9"}

\* the characters str.strip() removes and regex \s matches
Whitespace == {" ", NL}

UpperLetters == <<"A", "B", "C", "D", "E", "F", "G", "H", "I", "J", "K", "L", "M",
                  "N", "O", "P", "Q", "R", "S", "T", "U", "V", "W", "X", "Y", "Z">>

LowerLetters == <<"a", "b", "c", "d", "e", "f", "g", "h", "i", "j", "k", "l", "m",
                  "n", "o", "p", "q", "r", "s", "t", "u", "v", "w", "x", "y", "z">>

LowerChar(c) ==
    IF \E i \in 1..Len(UpperLetters) : UpperLetters[i] = c
    THEN LowerLetters[CHOOSE i \in 1..Len(UpperLetters) : UpperLetters[i] = c]
    ELSE c

\* str.lower()
lower(s) == [i \in 1..Len(s) |-> LowerChar(s[i])]

Min(a, b) == IF a < b THEN a ELSE b

\* s[a:b] of Python with 0 <= a, in 1-based inclusive positions a+1..b
Slice(s, from, to) == IF to < from THEN <<>> ELSE SubSeq(s, from, Min(to, Len(s)))

\* first position p >= i such that s[i..p-1] lies in S and s[p] does not (or p is
\* past the end): the end of a greedy run of characters of S starting at i
RunEnd(s, i, S) ==
    IF i > Len(s) THEN i
    ELSE CHOOSE p \in i..(Len(s) + 1) :
             /\ \A k \in i..(p - 1) : s[k] \in S
             /\ (p = Len(s) + 1 \/ s[p] \notin S)

\* str.strip()
strip(s) ==
    LET a == RunEnd(s, 1, Whitespace)
    IN  IF a > Len(s) THEN <<>>
        ELSE LET b == CHOOSE q \in a..Len(s) :
                          /\ s[q] \notin Whitespace
                          /\ \A k \in (q + 1)..Len(s) : s[k] \in Whitespace
             IN  SubSeq(s, a, b)

\* 1-based position of the first occurrence of sub in s at or after i, 0 if none
FindFrom(sub, s, i) ==
    LET hits == {p \in i..(Len(s) - Len(sub) + 1) : SubSeq(s, p, p + Len(sub) - 1) = sub}
    IN  IF hits = {} THEN 0 ELSE CHOOSE p \in hits : \A q \in hits : p <= q

\* sub in s
Contains(sub, s) == FindFrom(sub, s, 1) # 0

\* s.split(sep) for a non-empty separator
RECURSIVE split(_, _)
split(s, sep) ==
    LET p == FindFrom(sep, s, 1)
    IN  IF p = 0 THEN <<s>>
        ELSE <<SubSeq(s, 1, p - 1)>> \o split(SubSeq(s, p + Len(sep), Len(s)), sep)

\* s.split(sep, 1)
split1(s, sep) ==
    LET p == FindFrom(sep, s, 1)
    IN  IF p = 0 THEN <<s>>
        ELSE <<SubSeq(s, 1, p - 1), SubSeq(s, p + Len(sep), Len(s))>>

\* str(i + 1) for the small line positions of strategy 3
DigitChars == <<"1", "2", "3", "4", "5", "6", "7", "8", "9">>

str(n) == IF n = 0 THEN <<"0">>
          ELSE IF n <= 9 THEN <<DigitChars[n]>>
          ELSE <<DigitChars[n \div 10], IF n % 10 = 0 THEN "0" ELSE DigitChars[n % 10]>>

\* dict.get(key, default)
get(d, key, default) == IF key \in DOMAIN d THEN d[key] ELSE default

\* truth value of a dict
Truthy(d) == DOMAIN d # {}

\* ------------------------------------------------------------------------
\* Entity resolution inside parse_recommendations
\* ------------------------------------------------------------------------

NomeSolucao == "Nome da solução"

EmptyDict == [k \in {} |-> k]

\* {sol.get('Nome da solução', '').lower(): sol for sol in available_solutions}
\* as the list of (key, value) items in iteration order: a repeated key keeps
\* its first position and takes the last value
RECURSIVE DictItems(_, _, _)
DictItems(available_solutions, i, items) ==
    IF i > Len(available_solutions) THEN items
    ELSE LET sol == available_solutions[i]
             key == lower(get(sol, NomeSolucao, <<>>))
             at  == {p \in 1..Len(items) : items[p].key = key}
         IN  IF at = {}
             THEN DictItems(available_solutions, i + 1, Append(items, [key |-> key, sol |-> sol]))
             ELSE DictItems(available_solutions, i + 1,
                            [items EXCEPT ![CHOOSE p \in at : TRUE].sol = sol])

available_solutions_dict(available_solutions) == DictItems(available_solutions, 1, <<>>)

\* the partial pass alone: the first item in containment with the name
MatchSolution_PartialOnly(solution_name_lower, items) ==
    LET part == {p \in 1..Len(items) :
                    \/ Contains(solution_name_lower, items[p].key)
                    \/ Contains(items[p].key, solution_name_lower)}
    IN  IF part # {}
        THEN [exact_match |-> FALSE, found |-> TRUE,
              matched_solution |-> items[CHOOSE p \in part : \A q \in part : p <= q].sol]
        ELSE [exact_match |-> FALSE, found |-> FALSE, matched_solution |-> EmptyDict]

\* the exact pass, then the partial pass over the dict items in order; found is
\* FALSE where the code leaves matched_solution = None
MatchSolution(solution_name_lower, items) ==
    LET exact == {p \in 1..Len(items) : items[p].key = solution_name_lower}
        part  == {p \in 1..Len(items) :
                     \/ Contains(solution_name_lower, items[p].key)
                     \/ Contains(items[p].key, solution_name_lower)}
    IN  IF exact # {}
        THEN [exact_match |-> TRUE, found |-> TRUE,
              matched_solution |-> items[CHOOSE p \in exact : TRUE].sol]
        ELSE IF part # {}
        THEN [exact_match |-> FALSE, found |-> TRUE,
              matched_solution |-> items[CHOOSE p \in part : \A q \in part : p <= q].sol]
        ELSE [exact_match |-> FALSE, found |-> FALSE, matched_solution |-> EmptyDict]

\* an unmatched candidate kept without any solution data
Matched_NoData(number, solution_name, justification, m) ==
    IF m.found /\ Truthy(m.matched_solution)
    THEN [number        |-> number,
          solution_name |-> get(m.matched_solution, NomeSolucao, solution_name),
          justification |-> justification,
          exact_match   |-> m.exact_match,
          solution_data |-> m.matched_solution]
    ELSE [number        |-> number,
          solution_name |-> solution_name,
          justification |-> justification,
          exact_match   |-> FALSE,
          solution_data |-> EmptyDict]

\* "if matched_solution: ... else: ..." on the outcome m of MatchSolution
Matched(number, solution_name, justification, m) ==
    IF m.found /\ Truthy(m.matched_solution)
    THEN [number        |-> number,
          solution_name |-> get(m.matched_solution, NomeSolucao, solution_name),
          justification |-> justification,
          exact_match   |-> m.exact_match,
          solution_data |-> m.matched_solution]
    ELSE [number        |-> number,
          solution_name |-> solution_name,
          justification |-> justification,
          exact_match   |-> FALSE,
          solution_data |-> (NomeSolucao :> solution_name)]

\* the recommendation built from a candidate (number, name, justification),
\* looked up under name_lower
Recommendation(number, solution_name, name_lower, justification, items) ==
    Matched(number, solution_name, justification, MatchSolution(name_lower, items))

\* ------------------------------------------------------------------------
\* Strategy 1: re.findall(r'(\d+)\.\s+\[([^\]]+)\]:\s+(.*?)(?=\d+\.\s+\[|$)', text, re.DOTALL)
\* ------------------------------------------------------------------------

NoMatch == [ok |-> FALSE]

\* the lookahead \d+\.\s+\[ at position p: \s+\[ after the dot at d
MarkerBracket(t, d, w) == w > d + 1 /\ w <= Len(t) /\ t[w] = "["

\* \d+\. from p, the digits ending before d
MarkerDot(t, p, d) ==
    d > p /\ d <= Len(t) /\ t[d] = "." /\ MarkerBracket(t, d, RunEnd(t, d + 1, Whitespace))

AtMarker(t, p) == p <= Len(t) /\ MarkerDot(t, p, RunEnd(t, p, Digit))

\* $ without re.MULTILINE: the end of the text, or just before a final newline
AtDollar(t, p) == p = Len(t) + 1 \/ (p = Len(t) /\ t[p] = NL)

\* where the lazy (.*?) starting at s stops: the first position at which the
\* lookahead (?=\d+\.\s+\[|$) holds
LazyEnd(t, s) ==
    CHOOSE p \in s..(Len(t) + 1) :
        /\ AtMarker(t, p) \/ AtDollar(t, p)
        /\ \A q \in s..(p - 1) : ~AtMarker(t, q) /\ ~AtDollar(t, q)

\* the groups of a match: digits i..d-1, name w+1..b-1, justification s..e-1
MatchGroups(t, i, d, w, b, s, e) ==
    [ok |-> TRUE,
     number        |-> SubSeq(t, i, d - 1),
     solution_name |-> SubSeq(t, w + 1, b - 1),
     justification |-> SubSeq(t, s, e - 1),
     end           |-> e]

\* :\s+ after the closing bracket at b, the whitespace ending before s
AfterColon(t, i, d, w, b, s) ==
    IF s > b + 2 THEN MatchGroups(t, i, d, w, b, s, LazyEnd(t, s)) ELSE NoMatch

\* [^\]]+\]: after the opening bracket at w; b is the first "]" after it
AfterName(t, i, d, w, b) ==
    IF b > w + 1 /\ b + 1 <= Len(t) /\ t[b + 1] = ":"
    THEN AfterColon(t, i, d, w, b, RunEnd(t, b + 2, Whitespace))
    ELSE NoMatch

\* \s+\[ after the dot at d, the whitespace ending before w
AfterDot(t, i, d, w) ==
    IF w > d + 1 /\ w <= Len(t) /\ t[w] = "["
    THEN AfterName(t, i, d, w, FindFrom(<<"]">>, t, w + 1))
    ELSE NoMatch

\* (\d+)\. from i, the digits ending before d
AfterNumber(t, i, d) ==
    IF d > i /\ d <= Len(t) /\ t[d] = "."
    THEN AfterDot(t, i, d, RunEnd(t, d + 1, Whitespace))
    ELSE NoMatch

\* one match of the pattern anchored at position i; end is where the scan resumes
MatchAt(t, i) == AfterNumber(t, i, RunEnd(t, i, Digit))

RECURSIVE findall(_, _)
RECURSIVE Resume(_, _, _)

\* the scan goes on after a match, or one position further when none starts at i
Resume(t, i, m) == IF m.ok THEN <<m>> \o findall(t, m.end) ELSE findall(t, i + 1)

findall(t, i) == IF i > Len(t) THEN <<>> ELSE Resume(t, i, MatchAt(t, i))

\* the body of "for match in matches"
FromMatches(matches, items) ==
    [k \in 1..Len(matches) |->
        Recommendation(strip(matches[k].number),
                       strip(matches[k].solution_name),
                       lower(strip(matches[k].solution_name)),
                       strip(matches[k].justification),
                       items)]

Strategy1(recommendation_text, items) == FromMatches(findall(recommendation_text, 1), items)

\* ------------------------------------------------------------------------
\* Strategy 2: the line scan
\* ------------------------------------------------------------------------

\* the block run on current_rec before it is appended: the name is looked up as
\* it stands (not stripped)
Flush(current_rec, items) ==
    Recommendation(current_rec.number, current_rec.solution_name,
                   lower(current_rec.solution_name), current_rec.justification, items)

\* "if current_rec: ... recommendations.append(current_rec)"
Flushed(st, items) ==
    IF st.has THEN Append(st.recommendations, Flush(st.current_rec, items))
    ELSE st.recommendations

\* line[0].isdigit() and '. ' in line[:10]
IsMarkerLine(line) == line[1] \in Digit /\ Contains(<<".", " ">>, Slice(line, 1, 10))

Started(line, solution_name, justification, recs) ==
    [has |-> TRUE,
     current_rec |-> [number |-> <<line[1]>>, solution_name |-> solution_name,
                      justification |-> justification],
     recommendations |-> recs,
     raised |-> FALSE]

\* solution_name = parts[0].split('. ', 1)[1]: IndexError when head, the split
\* of the text before ': ', has one element
Named(line, parts, head, recs) ==
    IF Len(head) < 2
    THEN [has |-> FALSE, current_rec |-> [number |-> <<>>, solution_name |-> <<>>,
                                          justification |-> <<>>],
          recommendations |-> recs, raised |-> TRUE]
    ELSE Started(line, head[2], parts[2], recs)

\* a marker line, with parts = line.split(': ', 1) and recs the list after the
\* previous record was appended
NewRec(line, parts, recs) ==
    IF Len(parts) > 1
    THEN Named(line, parts, split1(parts[1], <<".", " ">>), recs)
    ELSE Started(line, Slice(line, 3, Len(line)), <<>>, recs)

\* the body of "for line in lines" after line = line.strip(), on the scan state
\* [has, current_rec, recommendations, raised]
ScanStripped(line, st, items) ==
    IF line = <<>> THEN st
    ELSE IF IsMarkerLine(line)
    THEN NewRec(line, split1(line, <<":", " ">>), Flushed(st, items))
    ELSE IF st.has
    THEN [st EXCEPT !.current_rec.justification = @ \o <<" ">> \o line]
    ELSE st

ScanLine(raw, st, items) == IF st.raised THEN st ELSE ScanStripped(strip(raw), st, items)

RECURSIVE ScanLines(_, _, _, _)
ScanLines(lines, i, st, items) ==
    IF i > Len(lines) THEN st ELSE ScanLines(lines, i + 1, ScanLine(lines[i], st, items), items)

ScanStart ==
    [has |-> FALSE,
     current_rec |-> [number |-> <<>>, solution_name |-> <<>>, justification |-> <<>>],
     recommendations |-> <<>>, raised |-> FALSE]

\* the trailing "if current_rec:" after the loop
ScanEnd(st, items) ==
    IF st.raised THEN [raised |-> TRUE, recommendations |-> <<>>]
    ELSE [raised |-> FALSE, recommendations |-> Flushed(st, items)]

\* [raised, recommendations] of the second block
Strategy2(recommendation_text, items) ==
    ScanEnd(ScanLines(split(recommendation_text, <<NL>>), 1, ScanStart, items), items)

\* ------------------------------------------------------------------------
\* Strategy 3: every line with a colon
\* ------------------------------------------------------------------------

\* parts = line.split(':', 1) of the i-th line (i counted from 1: str(i + 1) of
\* the 0-based index)
ColonRec(parts, i, items) ==
    Recommendation(str(i), strip(parts[1]), lower(strip(parts[1])),
                   IF Len(parts) > 1 THEN strip(parts[2]) ELSE <<>>, items)

\* a record for every non-empty line, with or without a colon
ColonLine_EveryLine(line, i, items) ==
    IF line # <<>> THEN <<ColonRec(split1(line, <<":">>), i, items)>> ELSE <<>>

ColonLine(line, i, items) ==
    IF line # <<>> /\ Contains(<<":">>, line)
    THEN <<ColonRec(split1(line, <<":">>), i, items)>>
    ELSE <<>>

RECURSIVE ColonLines(_, _, _)
ColonLines(lines, i, items) ==
    IF i > Len(lines) THEN <<>>
    ELSE ColonLine(strip(lines[i]), i, items) \o ColonLines(lines, i + 1, items)

Strategy3(recommendation_text, items) ==
    ColonLines(split(recommendation_text, <<NL>>), 1, items)

\* ------------------------------------------------------------------------
\* parse_recommendations
\* ------------------------------------------------------------------------

MaxRecommendations == 5

\* The three blocks act in turn on the list "recommendations", each one a record
\* [raised, recommendations].  Block 1 appends the pattern's records.
Block1(recommendation_text, items) ==
    [raised |-> FALSE, recommendations |-> <<>> \o Strategy1(recommendation_text, items)]

\* a block's records appended to the list
Extend(acc, block) ==
    [raised |-> block.raised, recommendations |-> acc.recommendations \o block.recommendations]

\* block 2 run whatever block 1 found
Block2_Always(acc, recommendation_text, items) ==
    Extend(acc, Strategy2(recommendation_text, items))

\* "if not recommendations:" before the line scan
Block2(acc, recommendation_text, items) ==
    IF acc.recommendations = <<>>
    THEN Extend(acc, Strategy2(recommendation_text, items))
    ELSE acc

\* "if not recommendations:" before the colon split; not reached once block 2
\* has raised
Block3(acc, recommendation_text, items) ==
    IF ~acc.raised /\ acc.recommendations = <<>>
    THEN [raised |-> FALSE,
          recommendations |-> acc.recommendations \o Strategy3(recommendation_text, items)]
    ELSE acc

Cascade(recommendation_text, items) ==
    Block3(Block2(Block1(recommendation_text, items), recommendation_text, items),
           recommendation_text, items)

\* a cap that lets a sixth record through
Cap_OneMore(recommendations) ==
    SubSeq(recommendations, 1, Min(MaxRecommendations + 1, Len(recommendations)))

\* recommendations[:5]
Cap(recommendations) == SubSeq(recommendations, 1, Min(MaxRecommendations, Len(recommendations)))

\* return recommendations[:5], unless a block raised
Returned(c) ==
    IF c.raised THEN [raised |-> TRUE, value |-> <<>>]
    ELSE [raised |-> FALSE, value |-> Cap(c.recommendations)]

\* [raised, value]: value is the list returned when raised is FALSE
parse_recommendations(recommendation_text, available_solutions) ==
    Returned(Cascade(recommendation_text, available_solutions_dict(available_solutions)))

\* ------------------------------------------------------------------------
\* generate_recommendation_prompt and get_recommendations
\* ------------------------------------------------------------------------

PromptSampleSize == 30

\* company_data.get('Nome da empresa', company_data.get('Nome Empresa', default))
company_name_of(company_data, default) ==
    get(company_data, "Nome da empresa", get(company_data, "Nome Empresa", default))

\* company_data.get('Desafio priorizado', company_data.get('Categoria do Problema', ''))
challenge_of(company_data) ==
    get(company_data, "Desafio priorizado", get(company_data, "Categoria do Problema", ""))

\* f"{company_name}-{challenge}"
cache_key_of(company_data) == company_name_of(company_data, "") \o "-" \o challenge_of(company_data)

\* generate_recommendation_prompt without its check of the catalog
generate_recommendation_prompt_Unchecked(company_data, available_solutions, already_scheduled) ==
    [built            |-> TRUE,
     company_name     |-> company_name_of(company_data, "Empresa"),
     challenge        |-> challenge_of(company_data),
     solutions_sample |-> SubSeq(available_solutions, 1,
                                 Min(PromptSampleSize, Len(available_solutions))),
     already_scheduled |-> already_scheduled]

\* The prompt is the record of what the text is rendered from; built is FALSE
\* where the code returns None.  An absent catalog (None) and an empty list
\* both make "not available_solutions" true: both are the empty sequence.
generate_recommendation_prompt(company_data, available_solutions, already_scheduled) ==
    IF available_solutions = <<>>
    THEN [built |-> FALSE]
    ELSE [built            |-> TRUE,
          company_name     |-> company_name_of(company_data, "Empresa"),
          challenge        |-> challenge_of(company_data),
          solutions_sample |-> SubSeq(available_solutions, 1,
                                      Min(PromptSampleSize, Len(available_solutions))),
          already_scheduled |-> already_scheduled]

\* What one call leaves behind: the value returned, the cache afterwards, the
\* catalog afterwards, and a trace of the call (the steps that ran, in order,
\* and how many completion calls were made).
Outcome(returned, cache, available_solutions, steps, invoked, how) ==
    [returned |-> returned, cache |-> cache, available_solutions |-> available_solutions,
     steps |-> steps, invoked |-> invoked, how |-> how, raised |-> FALSE]

\* self.recommendation_cache[cache_key] = recommendations
Store(cache, cache_key, recommendations) ==
    [k \in DOMAIN cache \cup {cache_key} |->
        IF k = cache_key THEN recommendations ELSE cache[k]]

\* after the completion call answered: parse, store, return; an exception from
\* the parser is caught like one from the service
Parsed(cache, cache_key, available_solutions, parsed) ==
    IF parsed.raised
    THEN Outcome(<<>>, cache, available_solutions,
                 <<"prompt", "complete", "parse">>, 1, "parse_error")
    ELSE Outcome(parsed.value, Store(cache, cache_key, parsed.value), available_solutions,
                 <<"prompt", "complete", "parse">>, 1, "stored")

\* a try block that also stores the empty list when the service raises
RequestAndParse_StoreOnError(cache, cache_key, available_solutions, service) ==
    IF service.fails
    THEN Outcome(<<>>, Store(cache, cache_key, <<>>), available_solutions,
                 <<"prompt", "complete">>, 1, "service_error")
    ELSE Parsed(cache, cache_key, available_solutions,
                parse_recommendations(strip(service.content), available_solutions))

\* The try block.  service is what openai.ChatCompletion.create does on this
\* call: [fails |-> TRUE] raises, [fails |-> FALSE, content |-> text] answers.
RequestAndParse(cache, cache_key, available_solutions, service) ==
    IF service.fails
    THEN Outcome(<<>>, cache, available_solutions, <<"prompt", "complete">>, 1, "service_error")
    ELSE Parsed(cache, cache_key, available_solutions,
                parse_recommendations(strip(service.content), available_solutions))

\* get_recommendations without the cache lookup
get_recommendations_NoLookup(cache, company_data, available_solutions, already_scheduled, service) ==
    IF ~Truthy(company_data)
    THEN Outcome(<<>>, cache, available_solutions, <<>>, 0, "no_company")
    ELSE IF available_solutions = <<>>
    THEN Outcome(<<>>, cache, available_solutions, <<>>, 0, "no_catalog")
    ELSE RequestAndParse(cache, cache_key_of(company_data), available_solutions, service)

\* get_recommendations building the prompt before it looks into the cache
get_recommendations_PromptFirst(cache, company_data, available_solutions, already_scheduled, service) ==
    IF ~Truthy(company_data)
    THEN Outcome(<<>>, cache, available_solutions, <<>>, 0, "no_company")
    ELSE IF available_solutions = <<>>
    THEN Outcome(<<>>, cache, available_solutions, <<>>, 0, "no_catalog")
    ELSE IF cache_key_of(company_data) \in DOMAIN cache
    THEN Outcome(cache[cache_key_of(company_data)], cache, available_solutions,
                 <<"prompt">>, 0, "cache_hit")
    ELSE RequestAndParse(cache, cache_key_of(company_data), available_solutions, service)

get_recommendations(cache, company_data, available_solutions, already_scheduled, service) ==
    IF ~Truthy(company_data)
    THEN Outcome(<<>>, cache, available_solutions, <<>>, 0, "no_company")
    ELSE IF available_solutions = <<>>
    THEN Outcome(<<>>, cache, available_solutions, <<>>, 0, "no_catalog")
    ELSE LET cache_key == cache_key_of(company_data)
         IN  IF cache_key \in DOMAIN cache
             THEN Outcome(cache[cache_key], cache, available_solutions, <<>>, 0, "cache_hit")
             ELSE LET prompt == generate_recommendation_prompt(company_data, available_solutions,
                                                               already_scheduled)
                  IN  IF ~prompt.built
                      THEN Outcome(<<>>, cache, available_solutions, <<"prompt">>, 0, "no_prompt")
                      ELSE RequestAndParse(cache, cache_key, available_solutions, service)

\* get_recommendations up to the completion call: the early returns, the cache
\* lookup and the prompt.  how is "create" where the call of
\* openai.ChatCompletion.create is made; the rest of the call is RequestAndParse
\* on the cache as it is when the service has answered.
CheckCache(cache, company_data, available_solutions, already_scheduled) ==
    IF ~Truthy(company_data)
    THEN Outcome(<<>>, cache, available_solutions, <<>>, 0, "no_company")
    ELSE IF available_solutions = <<>>
    THEN Outcome(<<>>, cache, available_solutions, <<>>, 0, "no_catalog")
    ELSE IF cache_key_of(company_data) \in DOMAIN cache
    THEN Outcome(cache[cache_key_of(company_data)], cache, available_solutions,
                 <<>>, 0, "cache_hit")
    ELSE IF ~generate_recommendation_prompt(company_data, available_solutions,
                                            already_scheduled).built
    THEN Outcome(<<>>, cache, available_solutions, <<"prompt">>, 0, "no_prompt")
    ELSE Outcome(<<>>, cache, available_solutions, <<"prompt", "complete">>, 1, "create")

\* def clear_cache(self): self.recommendation_cache = {}
clear_cache(cache) == EmptyDict

\* RecommendationSystem.__init__: self.recommendation_cache = {}
NewRecommendationSystem == EmptyDict

\* ------------------------------------------------------------------------
\* calculate_solution_adherence
\* ------------------------------------------------------------------------

AdherenceSampleSize == 10

\* "score": 0, "justification": "Não foi possível calcular a aderência."
NaoFoiPossivel ==
    <<"N", "ã", "o", " ", "f", "o", "i", " ", "p", "o", "s", "s", "í", "v", "e", "l",
      " ", "c", "a", "l", "c", "u", "l", "a", "r", " ", "a", " ", "a", "d", "e", "r",
      "ê", "n", "c", "i", "a", ".">>

\* "score": 0, "justification": "Erro ao calcular."
ErroAoCalcular ==
    <<"E", "r", "r", "o", " ", "a", "o", " ", "c", "a", "l", "c", "u", "l", "a", "r",
      ".">>

\* str(i + 1) inside the f-string f'Empresa {i+1}', as a whole string
Formatted(n) ==
    IF n <= 9 THEN DigitChars[n]
    ELSE DigitChars[n \div 10] \o (IF n % 10 = 0 THEN "0" ELSE DigitChars[n % 10])

\* company.get('Nome da empresa', company.get('Nome Empresa', f'Empresa {i+1}'))
\* for the n-th company of the sample (n = i + 1)
AdherenceName(company, n) == company_name_of(company, "Empresa " \o Formatted(n))

DigitValue(c) == IF c = "0" THEN 0 ELSE CHOOSE v \in 1..9 : DigitChars[v] = c

\* int(score) of a run of digits
RECURSIVE int(_)
int(digits) ==
    IF digits = <<>> THEN 0
    ELSE 10 * int(SubSeq(digits, 1, Len(digits) - 1)) + DigitValue(digits[Len(digits)])

EmpresaLower == <<"e", "m", "p", "r", "e", "s", "a">>

\* "Empresa" at p under re.IGNORECASE
AtEmpresa(t, p) == lower(Slice(t, p, p + 6)) = EmpresaLower

\* where the lazy (.*?) starting at s stops: the first position at which the
\* lookahead (?=Empresa|$) holds
LazyEndEmpresa(t, s) ==
    CHOOSE p \in s..(Len(t) + 1) :
        /\ AtEmpresa(t, p) \/ AtDollar(t, p)
        /\ \A q \in s..(p - 1) : ~AtEmpresa(t, q) /\ ~AtDollar(t, q)

\* the groups of a match: score w..d-1, justification s..e-1
ScoreGroups(t, w, d, s, e) ==
    [ok |-> TRUE, score |-> SubSeq(t, w, d - 1), justification |-> SubSeq(t, s, e - 1)]

\* \s+ after the hyphen at h, the whitespace ending before s
AfterHyphen(t, w, d, h, s) ==
    IF s > h + 1 THEN ScoreGroups(t, w, d, s, LazyEndEmpresa(t, s)) ELSE NoMatch

\* \s+- after "/10", which ends before position d + 3; the whitespace ends before h
AfterTen(t, w, d, h) ==
    IF h > d + 3 /\ h <= Len(t) /\ t[h] = "-"
    THEN AfterHyphen(t, w, d, h, RunEnd(t, h + 1, Whitespace))
    ELSE NoMatch

\* (\d+)/10 from w, the digits ending before d
AfterScoreSpace(t, w, d) ==
    IF d > w /\ Slice(t, d, d + 2) = <<"/", "1", "0">>
    THEN AfterTen(t, w, d, RunEnd(t, d + 3, Whitespace))
    ELSE NoMatch

\* \s+ after the colon at c, the whitespace ending before w
AfterScoreColon(t, c, w) ==
    IF w > c + 1 THEN AfterScoreSpace(t, w, RunEnd(t, w, Digit)) ELSE NoMatch

\* :\s+(\d+)/10\s+-\s+(.*?)(?=Empresa|$) with the colon at c
ScoreAt(t, c) ==
    IF t[c] = ":" THEN AfterScoreColon(t, c, RunEnd(t, c + 1, Whitespace)) ELSE NoMatch

\* the first match among ms[a], ms[a + 1], ..., ms[b]
FirstOk(ms, a, b) ==
    IF \E c \in a..b : ms[c].ok
    THEN ms[CHOOSE c \in a..b : ms[c].ok /\ \A q \in a..(c - 1) : ~ms[q].ok]
    ELSE NoMatch

\* .*?: from a, lazy: the first colon at or after a from which the rest matches
ScoreAfter(t, a) == FirstOk([c \in a..Len(t) |-> ScoreAt(t, c)], a, Len(t))

\* \s+N after "Empresa" at p, the whitespace ending before w; number is str(i+1)
AnchorNumber(t, p, w, number) ==
    IF w > p + 7 /\ Slice(t, w, w + Len(number) - 1) = number
    THEN ScoreAfter(t, w + Len(number))
    ELSE NoMatch

\* the pattern anchored at position p
AnchorAt(t, p, number) ==
    IF AtEmpresa(t, p)
    THEN AnchorNumber(t, p, RunEnd(t, p + 7, Whitespace), number)
    ELSE NoMatch

\* re.search(rf"Empresa\s+{i+1}.*?:\s+(\d+)/10\s+-\s+(.*?)(?=Empresa|$)",
\*           adherence_text, re.DOTALL | re.IGNORECASE): the leftmost match
search_adherence(adherence_text, number) ==
    FirstOk([p \in 1..Len(adherence_text) |-> AnchorAt(adherence_text, p, number)],
            1, Len(adherence_text))

\* adherence_results[company_name] = {...} on the dict as the list of its items
\* in insertion order: a key already present keeps its position
SetItem(adherence_results, entry) ==
    LET at == {p \in 1..Len(adherence_results) :
                   adherence_results[p].company_name = entry.company_name}
    IN  IF at = {} THEN Append(adherence_results, entry)
        ELSE [adherence_results EXCEPT ![CHOOSE p \in at : TRUE] = entry]

\* "if match: ... else: ..." for one company.  The fields of an entry are
\* written in the order in which TLC keeps them.
AdherenceEntry(company_name, match) ==
    IF match.ok
    THEN [justification |-> strip(match.justification), company_name |-> company_name,
          score |-> int(match.score)]
    ELSE [justification |-> NaoFoiPossivel, company_name |-> company_name, score |-> 0]

\* for i, company in enumerate(companies_sample), from the n-th company on
RECURSIVE Extracted(_, _, _, _)
Extracted(companies_sample, adherence_text, n, adherence_results) ==
    IF n > Len(companies_sample) THEN adherence_results
    ELSE Extracted(companies_sample, adherence_text, n + 1,
                   SetItem(adherence_results,
                           AdherenceEntry(AdherenceName(companies_sample[n], n),
                                          search_adherence(adherence_text, str(n)))))

\* the dict comprehension of the except clause
RECURSIVE AdherenceFailed(_, _, _)
AdherenceFailed(companies_sample, n, adherence_results) ==
    IF n > Len(companies_sample) THEN adherence_results
    ELSE AdherenceFailed(companies_sample, n + 1,
                         SetItem(adherence_results,
                                 [justification |-> ErroAoCalcular,
                                  company_name |-> AdherenceName(companies_sample[n], n),
                                  score |-> 0]))

\* what a call leaves behind: the value returned and a trace of the call
Answer(returned, invoked, how) ==
    [raised |-> FALSE, returned |-> returned, invoked |-> invoked, how |-> how]

\* an except clause that returns the empty dict
AdherenceRequest_EmptyOnError(companies_sample, service) ==
    IF service.fails
    THEN Answer(<<>>, 1, "service_error")
    ELSE Answer(Extracted(companies_sample, strip(service.content), 1, <<>>), 1, "scored")

\* the try block and its except clause
AdherenceRequest(companies_sample, service) ==
    IF service.fails
    THEN Answer(AdherenceFailed(companies_sample, 1, <<>>), 1, "service_error")
    ELSE Answer(Extracted(companies_sample, strip(service.content), 1, <<>>), 1, "scored")

\* The result, a dict keyed by company name, is the list of its items in
\* insertion order; the empty dict is the empty list.
calculate_solution_adherence(solution, companies_data, service) ==
    IF get(solution, NomeSolucao, <<>>) = <<>> \/ companies_data = <<>>
    THEN Answer(<<>>, 0, "insufficient")
    ELSE AdherenceRequest(SubSeq(companies_data, 1,
                                 Min(AdherenceSampleSize, Len(companies_data))),
                          service)

\* ------------------------------------------------------------------------
\* suggest_new_courses and parse_course_suggestions
\* ------------------------------------------------------------------------

Modalidade    == <<"M", "o", "d", "a", "l", "i", "d", "a", "d", "e", ":">>
Tema          == <<"T", "e", "m", "a", ":">>
Descricao     == <<"D", "e", "s", "c", "r", "i", "ç", "ã", "o", ":">>
Justificativa == <<"J", "u", "s", "t", "i", "f", "i", "c", "a", "t", "i", "v", "a", ":">>

\* the groups of a match: digits i..d-1, name w+1..b-1, details b+1..e-1
CourseGroups(t, i, d, w, b, e) ==
    [ok |-> TRUE,
     number  |-> SubSeq(t, i, d - 1),
     name    |-> SubSeq(t, w + 1, b - 1),
     details |-> SubSeq(t, b + 1, e - 1),
     end     |-> e]

\* [^\]]+\] after the opening bracket at w; b is the first "]" after it
CourseName(t, i, d, w, b) ==
    IF b > w + 1 THEN CourseGroups(t, i, d, w, b, LazyEnd(t, b + 1)) ELSE NoMatch

\* \s+\[ after the dot at d, the whitespace ending before w
CourseDot(t, i, d, w) ==
    IF w > d + 1 /\ w <= Len(t) /\ t[w] = "["
    THEN CourseName(t, i, d, w, FindFrom(<<"]">>, t, w + 1))
    ELSE NoMatch

\* (\d+)\. from i, the digits ending before d
CourseNumber(t, i, d) ==
    IF d > i /\ d <= Len(t) /\ t[d] = "."
    THEN CourseDot(t, i, d, RunEnd(t, d + 1, Whitespace))
    ELSE NoMatch

\* (\d+)\.\s+\[([^\]]+)\](.*?)(?=\d+\.\s+\[|$) anchored at position i
CourseAt(t, i) == CourseNumber(t, i, RunEnd(t, i, Digit))

RECURSIVE findall_courses(_, _)
RECURSIVE ResumeCourses(_, _, _)

ResumeCourses(t, i, m) ==
    IF m.ok THEN <<m>> \o findall_courses(t, m.end) ELSE findall_courses(t, i + 1)

\* re.findall(pattern, suggestions_text, re.DOTALL) from position i on
findall_courses(t, i) == IF i > Len(t) THEN <<>> ELSE ResumeCourses(t, i, CourseAt(t, i))

\* group(1).strip() of (.+?)(?=\n|$) starting at r: up to the newline at nl, or
\* to the end of the details when there is none (nl = 0)
FieldValue(details, r, nl) ==
    strip(SubSeq(details, r, IF nl = 0 THEN Len(details) ELSE nl - 1))

\* the whitespace after the label ends before r; when it runs to the end of the
\* details the group can only hold blanks, or there is no match: "" either way
FieldFrom(details, r) ==
    IF r > Len(details) THEN <<>> ELSE FieldValue(details, r, FindFrom(<<NL>>, details, r))

\* the positions at which Label:\s+ matches
FieldHits(details, label) ==
    {p \in 1..Len(details) :
        /\ Slice(details, p, p + Len(label) - 1) = label
        /\ RunEnd(details, p + Len(label), Whitespace) > p + Len(label)}

FieldOf(details, label, hits) ==
    IF hits = {} THEN <<>>
    ELSE FieldFrom(details,
                   RunEnd(details, (CHOOSE p \in hits : \A q \in hits : p <= q) + Len(label),
                          Whitespace))

\* m = re.search(r'Label:\s+(.+?)(?=\n|$)', details);
\* m.group(1).strip() if m else ""
Field(details, label) == FieldOf(details, label, FieldHits(details, label))

\* the body of "for match in matches"
FromCourseMatches(matches) ==
    [k \in 1..Len(matches) |->
        [number        |-> strip(matches[k].number),
         name          |-> strip(matches[k].name),
         modalidade    |-> Field(matches[k].details, Modalidade),
         tema          |-> Field(matches[k].details, Tema),
         descricao     |-> Field(matches[k].details, Descricao),
         justificativa |-> Field(matches[k].details, Justificativa)]]

\* \.\s+ after the digits, the whitespace ending before w: where the separator ends
SeparatorDot(d, w) == IF w > d + 1 THEN w ELSE 0

SeparatorNumber(t, i, d) ==
    IF d > i /\ d <= Len(t) /\ t[d] = "."
    THEN SeparatorDot(d, RunEnd(t, d + 1, Whitespace))
    ELSE 0

\* \d+\.\s+ anchored at position i: the position after the match, 0 when none
SeparatorAt(t, i) == SeparatorNumber(t, i, RunEnd(t, i, Digit))

RECURSIVE re_split(_, _, _)
RECURSIVE Cut(_, _, _, _)

Cut(t, from, i, e) ==
    IF e = 0 THEN re_split(t, from, i + 1)
    ELSE <<SubSeq(t, from, i - 1)>> \o re_split(t, e, e)

\* re.split(r'\d+\.\s+', t): the piece that starts at from, the scan being at i
re_split(t, from, i) ==
    IF i > Len(t) THEN <<SubSeq(t, from, Len(t))>> ELSE Cut(t, from, i, SeparatorAt(t, i))

StartsWith(line, prefix) == Slice(line, 1, Len(prefix)) = prefix

\* the if/elif chain on one stripped line: line[13:], line[8:], line[13:], line[16:]
Labelled(fields, line) ==
    IF StartsWith(line, <<"-", " ">> \o Modalidade)
    THEN [fields EXCEPT !.modalidade = strip(Slice(line, 14, Len(line)))]
    ELSE IF StartsWith(line, <<"-", " ">> \o Tema)
    THEN [fields EXCEPT !.tema = strip(Slice(line, 9, Len(line)))]
    ELSE IF StartsWith(line, <<"-", " ">> \o Descricao)
    THEN [fields EXCEPT !.descricao = strip(Slice(line, 14, Len(line)))]
    ELSE IF StartsWith(line, <<"-", " ">> \o Justificativa)
    THEN [fields EXCEPT !.justificativa = strip(Slice(line, 17, Len(line)))]
    ELSE fields

\* for line in lines[1:], from the k-th line on
RECURSIVE SectionLines(_, _, _)
SectionLines(fields, lines, k) ==
    IF k > Len(lines) THEN fields
    ELSE SectionLines(Labelled(fields, strip(lines[k])), lines, k + 1)

\* one section; its number is str(i + 1)
Section(number, lines) ==
    SectionLines([number |-> number, name |-> strip(lines[1]), modalidade |-> <<>>,
                  tema |-> <<>>, descricao |-> <<>>, justificativa |-> <<>>],
                 lines, 2)

\* for i, section in enumerate(sections)
FromSections(sections) ==
    [k \in 1..Len(sections) |-> Section(str(k), split(strip(sections[k]), <<NL>>))]

\* "if not suggestions": the alternative format is tried
CourseCascade(suggestions, suggestions_text) ==
    IF suggestions # <<>> THEN suggestions
    ELSE FromSections(Tail(re_split(suggestions_text, 1, 1)))

parse_course_suggestions(suggestions_text) ==
    CourseCascade(FromCourseMatches(findall_courses(suggestions_text, 1)), suggestions_text)

\* regional_data is None or a dict of aggregates as get_regional_data builds
\* them, scheduled_solutions a list: the prompt is built without an error
suggest_new_courses(regional_data, scheduled_solutions, service) ==
    IF ~Truthy(regional_data) THEN Answer(<<>>, 0, "no_regional_data")
    ELSE IF service.fails THEN Answer(<<>>, 1, "service_error")
    ELSE Answer(parse_course_suggestions(strip(service.content)), 1, "suggested")

\* ------------------------------------------------------------------------
\* DataIntegration: the solutions of the spreadsheet and of the web sites
\* ------------------------------------------------------------------------

\* A DataFrame is its set of column names and the list of its rows, each row a
\* function from the column names to cells.  A cell is a text (a sequence of
\* characters) or Null, which stands for None and NaN.  Every column holds
\* texts (dtype object).  None in place of a DataFrame is NoFrame.
Null == <<"NaN">>

NoFrame == [none |-> TRUE, columns |-> {}, rows |-> <<>>]

Frame(columns, rows) == [none |-> FALSE, columns |-> columns, rows |-> rows]

\* row[col] for a column the row may lack
Cell(row, col) == IF col \in DOMAIN row THEN row[col] ELSE Null

\* the row over the given columns: missing cells are Null, other cells dropped
Reindexed(row, columns) == [col \in columns |-> Cell(row, col)]

\* pd.DataFrame(solutions) of a list of dicts: the columns are the keys met
DataFrame(solutions) ==
    Frame(UNION {DOMAIN solutions[k] : k \in 1..Len(solutions)},
          [k \in 1..Len(solutions) |->
              Reindexed(solutions[k], UNION {DOMAIN solutions[j] : j \in 1..Len(solutions)})])

\* the rows that drop_duplicates(subset=['Nome da solução', 'Fonte']) keeps:
\* the first row of every pair of cells, compared as they are
RECURSIVE FirstOfEachKey(_, _, _)
FirstOfEachKey(rows, k, kept) ==
    IF k > Len(rows) THEN kept
    ELSE IF \E j \in 1..Len(kept) :
                /\ kept[j][NomeSolucao] = rows[k][NomeSolucao]
                /\ kept[j]["Fonte"] = rows[k]["Fonte"]
         THEN FirstOfEachKey(rows, k + 1, kept)
         ELSE FirstOfEachKey(rows, k + 1, Append(kept, rows[k]))

\* df.drop_duplicates(subset=['Nome da solução', 'Fonte']): KeyError (raised)
\* when the frame lacks one of the two columns
drop_duplicates(df) ==
    IF {NomeSolucao, "Fonte"} \subseteq df.columns
    THEN [raised |-> FALSE, df |-> Frame(df.columns, FirstOfEachKey(df.rows, 1, <<>>))]
    ELSE [raised |-> TRUE, df |-> NoFrame]

\* "if col not in df.columns: df[col] = value" for every col of columns
WithColumns(df, columns, value) ==
    Frame(df.columns \cup columns,
          [k \in 1..Len(df.rows) |->
              [col \in df.columns \cup columns |->
                  IF col \in df.columns THEN df.rows[k][col] ELSE value]])

\* df[cols].copy()
Selected(df, cols) ==
    Frame(cols, [k \in 1..Len(df.rows) |-> [col \in cols |-> df.rows[k][col]]])

\* df[col].fillna('') on every column
fillna(df) ==
    Frame(df.columns,
          [k \in 1..Len(df.rows) |->
              [col \in df.columns |->
                  IF df.rows[k][col] = Null THEN <<>> ELSE df.rows[k][col]]])

\* ---- load_solutions_from_excel ----

PlanilhaSolucoesSebrae == <<"P", "l", "a", "n", "i", "l", "h", "a", " ", "S", "o", "l", "u", "ç", "õ", "e", "s",
  " ", "S", "e", "b", "r", "a", "e">>

\* column_mapping, without the pairs that map a name to itself
column_mapping ==
    ("Ação Destaque" :> NomeSolucao) @@ ("Objetivo" :> "Descrição")
        @@ ("Segmento / Grupo" :> "Segmento") @@ ("Público Alvo" :> "Público-alvo")
        @@ ("Instrumento" :> "Modalidade") @@ ("Estratégia" :> "Tema")

NewName(col) == IF col \in DOMAIN column_mapping THEN column_mapping[col] ELSE col

\* df.rename(columns=valid_columns) on a sheet whose renamed columns are new
Renamed(df) ==
    Frame({NewName(col) : col \in df.columns},
          [k \in 1..Len(df.rows) |->
              [new \in {NewName(col) : col \in df.columns} |->
                  df.rows[k][CHOOSE col \in df.columns : NewName(col) = new]]])

\* df['Fonte'] = 'Planilha Soluções Sebrae'
WithSource(df) ==
    Frame(df.columns \cup {"Fonte"},
          [k \in 1..Len(df.rows) |->
              [col \in df.columns \cup {"Fonte"} |->
                  IF col = "Fonte" THEN PlanilhaSolucoesSebrae ELSE df.rows[k][col]]])

\* "self.solutions_data = df; return df"
Loaded(df) == [returned |-> df, solutions_data |-> df]

\* sheet is what pd.read_excel returns, or NoFrame when it raises; the result
\* is [returned, solutions_data], solutions_data the field of the object after
\* the call
load_solutions_from_excel(solutions_data, sheet) ==
    IF sheet.none
    THEN [returned |-> NoFrame, solutions_data |-> solutions_data]
    ELSE Loaded(WithSource(Renamed(sheet)))

\* ---- SebraeScraper (sebrae_scraper.py) and scrape_web_solutions ----

MinWebSolutions == 20

\* a solution dict of the scraper, without its 'Data de coleta'
WebSolution(nome, descricao, link, modalidade, fonte, tema) ==
    (NomeSolucao :> nome) @@ ("Descrição" :> descricao) @@ ("Link" :> link)
        @@ ("Modalidade" :> modalidade) @@ ("Fonte" :> fonte) @@ ("Tema" :> tema)

default_solutions ==
  <<
    WebSolution(<<"C", "o", "n", "s", "u", "l", "t", "o", "r", "i", "a", " ", "e", "m",
              " ", "M", "a", "r", "k", "e", "t", "i", "n", "g", " ", "D", "i", "g",
              "i", "t", "a", "l">>,
                <<"C", "o", "n", "s", "u", "l", "t", "o", "r", "i", "a", " ", "e", "s",
              "p", "e", "c", "i", "a", "l", "i", "z", "a", "d", "a", " ", "p", "a",
              "r", "a", " ", "m", "e", "l", "h", "o", "r", "a", "r", " ", "a", " ",
              "p", "r", "e", "s", "e", "n", "ç", "a", " ", "d", "i", "g", "i", "t",
              "a", "l", " ", "d", "a", " ", "s", "u", "a", " ", "e", "m", "p", "r",
              "e", "s", "a", " ", "e", " ", "a", "u", "m", "e", "n", "t", "a", "r",
              " ", "o", " ", "a", "l", "c", "a", "n", "c", "e", " ", "o", "n", "l",
              "i", "n", "e", ".">>,
                <<"h", "t", "t", "p", "s", ":", "/", "/", "s", "e", "b", "r", "a", "e",
              ".", "c", "o", "m", ".", "b", "r", "/", "s", "i", "t", "e", "s", "/",
              "P", "o", "r", "t", "a", "l", "S", "e", "b", "r", "a", "e", "/", "s",
              "e", "b", "r", "a", "e", "t", "e", "c">>,
                <<"C", "o", "n", "s", "u", "l", "t", "o", "r", "i", "a">>,
                <<"S", "e", "b", "r", "a", "e", "t", "e", "c">>,
                <<"M", "a", "r", "k", "e", "t", "i", "n", "g">>),
    WebSolution(<<"C", "o", "n", "s", "u", "l", "t", "o", "r", "i", "a", " ", "e", "m",
              " ", "G", "e", "s", "t", "ã", "o", " ", "F", "i", "n", "a", "n", "c",
              "e", "i", "r", "a">>,
                <<"C", "o", "n", "s", "u", "l", "t", "o", "r", "i", "a", " ", "p", "a",
              "r", "a", " ", "o", "r", "g", "a", "n", "i", "z", "a", "r", " ", "a",
              "s", " ", "f", "i", "n", "a", "n", "ç", "a", "s", " ", "d", "a", " ",
              "e", "m", "p", "r", "e", "s", "a", ",", " ", "m", "e", "l", "h", "o",
              "r", "a", "r", " ", "o", " ", "f", "l", "u", "x", "o", " ", "d", "e",
              " ", "c", "a", "i", "x", "a", " ", "e", " ", "a", "u", "m", "e", "n",
              "t", "a", "r", " ", "a", " ", "l", "u", "c", "r", "a", "t", "i", "v",
              "i", "d", "a", "d", "e", ".">>,
                <<"h", "t", "t", "p", "s", ":", "/", "/", "s", "e", "b", "r", "a", "e",
              ".", "c", "o", "m", ".", "b", "r", "/", "s", "i", "t", "e", "s", "/",
              "P", "o", "r", "t", "a", "l", "S", "e", "b", "r", "a", "e", "/", "s",
              "e", "b", "r", "a", "e", "t", "e", "c">>,
                <<"C", "o", "n", "s", "u", "l", "t", "o", "r", "i", "a">>,
                <<"S", "e", "b", "r", "a", "e", "t", "e", "c">>,
                <<"F", "i", "n", "a", "n", "ç", "a", "s">>),
    WebSolution(<<"P", "r", "o", "g", "r", "a", "m", "a", " ", "A", "L", "I", " ", "-",
              " ", "A", "g", "e", "n", "t", "e", "s", " ", "L", "o", "c", "a", "i",
              "s", " ", "d", "e", " ", "I", "n", "o", "v", "a", "ç", "ã", "o">>,
                <<"P", "r", "o", "g", "r", "a", "m", "a", " ", "q", "u", "e", " ", "p",
              "r", "o", "m", "o", "v", "e", " ", "a", " ", "p", "r", "á", "t", "i",
              "c", "a", " ", "c", "o", "n", "t", "i", "n", "u", "a", "d", "a", " ",
              "d", "e", " ", "a", "ç", "õ", "e", "s", " ", "d", "e", " ", "i", "n",
              "o", "v", "a", "ç", "ã", "o", " ", "n", "a", "s", " ", "e", "m", "p",
              "r", "e", "s", "a", "s", " ", "d", "e", " ", "p", "e", "q", "u", "e",
              "n", "o", " ", "p", "o", "r", "t", "e", ".">>,
                <<"h", "t", "t", "p", "s", ":", "/", "/", "s", "e", "b", "r", "a", "e",
              ".", "c", "o", "m", ".", "b", "r", "/", "s", "i", "t", "e", "s", "/",
              "P", "o", "r", "t", "a", "l", "S", "e", "b", "r", "a", "e", "/", "u",
              "f", "s", "/", "m", "g">>,
                <<"P", "r", "o", "g", "r", "a", "m", "a">>,
                <<"P", "o", "r", "t", "a", "l", " ", "S", "e", "b", "r", "a", "e", " ",
              "M", "G">>,
                <<"I", "n", "o", "v", "a", "ç", "ã", "o">>),
    WebSolution(<<"C", "u", "r", "s", "o", " ", "G", "e", "s", "t", "ã", "o", " ", "d",
              "e", " ", "V", "e", "n", "d", "a", "s">>,
                <<"A", "p", "r", "e", "n", "d", "a", " ", "t", "é", "c", "n", "i", "c",
              "a", "s", " ", "e", "f", "i", "c", "i", "e", "n", "t", "e", "s", " ",
              "p", "a", "r", "a", " ", "a", "u", "m", "e", "n", "t", "a", "r", " ",
              "a", "s", " ", "v", "e", "n", "d", "a", "s", " ", "d", "a", " ", "s",
              "u", "a", " ", "e", "m", "p", "r", "e", "s", "a", ".">>,
                <<"h", "t", "t", "p", "s", ":", "/", "/", "s", "e", "b", "r", "a", "e",
              ".", "c", "o", "m", ".", "b", "r", "/", "s", "i", "t", "e", "s", "/",
              "P", "o", "r", "t", "a", "l", "S", "e", "b", "r", "a", "e", "/", "c",
              "u", "r", "s", "o", "s", "e", "v", "e", "n", "t", "o", "s">>,
                <<"C", "u", "r", "s", "o">>,
                <<"A", "g", "e", "n", "d", "a", " ", "S", "e", "b", "r", "a", "e", " ",
              "M", "G">>,
                <<"V", "e", "n", "d", "a", "s">>),
    WebSolution(<<"C", "u", "r", "s", "o", " ", "O", "n", "l", "i", "n", "e", ":", " ",
              "A", "t", "e", "n", "d", "i", "m", "e", "n", "t", "o", " ", "a", "o",
              " ", "C", "l", "i", "e", "n", "t", "e">>,
                <<"A", "p", "r", "e", "n", "d", "a", " ", "t", "é", "c", "n", "i", "c",
              "a", "s", " ", "p", "a", "r", "a", " ", "m", "e", "l", "h", "o", "r",
              "a", "r", " ", "o", " ", "a", "t", "e", "n", "d", "i", "m", "e", "n",
              "t", "o", " ", "e", " ", "f", "i", "d", "e", "l", "i", "z", "a", "r",
              " ", "s", "e", "u", "s", " ", "c", "l", "i", "e", "n", "t", "e", "s",
              ".">>,
                <<"h", "t", "t", "p", "s", ":", "/", "/", "s", "e", "b", "r", "a", "e",
              "p", "l", "a", "y", ".", "c", "o", "m", ".", "b", "r", "/">>,
                <<"C", "u", "r", "s", "o", " ", "O", "n", "l", "i", "n", "e">>,
                <<"S", "e", "b", "r", "a", "e", " ", "P", "l", "a", "y">>,
                <<"M", "a", "r", "k", "e", "t", "i", "n", "g">>),
    WebSolution(<<"C", "o", "n", "s", "u", "l", "t", "o", "r", "i", "a", " ", "e", "m",
              " ", "P", "r", "o", "c", "e", "s", "s", "o", "s">>,
                <<"C", "o", "n", "s", "u", "l", "t", "o", "r", "i", "a", " ", "p", "a",
              "r", "a", " ", "o", "t", "i", "m", "i", "z", "a", "r", " ", "o", "s",
              " ", "p", "r", "o", "c", "e", "s", "s", "o", "s", " ", "d", "a", " ",
              "s", "u", "a", " ", "e", "m", "p", "r", "e", "s", "a", " ", "e", " ",
              "a", "u", "m", "e", "n", "t", "a", "r", " ", "a", " ", "p", "r", "o",
              "d", "u", "t", "i", "v", "i", "d", "a", "d", "e", ".">>,
                <<"h", "t", "t", "p", "s", ":", "/", "/", "l", "o", "j", "a", ".", "s",
              "e", "b", "r", "a", "e", "m", "g", ".", "c", "o", "m", ".", "b", "r",
              "/">>,
                <<"C", "o", "n", "s", "u", "l", "t", "o", "r", "i", "a">>,
                <<"L", "o", "j", "a", " ", "S", "e", "b", "r", "a", "e", " ", "M", "G">>,
                <<"O", "p", "e", "r", "a", "ç", "õ", "e", "s">>),
    WebSolution(<<"C", "u", "r", "s", "o", " ", "d", "e", " ", "G", "e", "s", "t", "ã",
              "o", " ", "d", "e", " ", "P", "e", "s", "s", "o", "a", "s">>,
                <<"A", "p", "r", "e", "n", "d", "a", " ", "a", " ", "g", "e", "r", "e",
              "n", "c", "i", "a", "r", " ", "s", "u", "a", " ", "e", "q", "u", "i",
              "p", "e", " ", "d", "e", " ", "f", "o", "r", "m", "a", " ", "e", "f",
              "i", "c", "i", "e", "n", "t", "e", " ", "e", " ", "m", "o", "t", "i",
              "v", "a", "d", "o", "r", "a", ".">>,
                <<"h", "t", "t", "p", "s", ":", "/", "/", "s", "e", "b", "r", "a", "e",
              ".", "c", "o", "m", ".", "b", "r", "/", "s", "i", "t", "e", "s", "/",
              "P", "o", "r", "t", "a", "l", "S", "e", "b", "r", "a", "e", "/", "c",
              "u", "r", "s", "o", "s", "e", "v", "e", "n", "t", "o", "s">>,
                <<"C", "u", "r", "s", "o">>,
                <<"A", "g", "e", "n", "d", "a", " ", "S", "e", "b", "r", "a", "e", " ",
              "M", "G">>,
                <<"P", "e", "s", "s", "o", "a", "s">>),
    WebSolution(<<"C", "o", "n", "s", "u", "l", "t", "o", "r", "i", "a", " ", "e", "m",
              " ", "E", "-", "c", "o", "m", "m", "e", "r", "c", "e">>,
                <<"C", "o", "n", "s", "u", "l", "t", "o", "r", "i", "a", " ", "e", "s",
              "p", "e", "c", "i", "a", "l", "i", "z", "a", "d", "a", " ", "p", "a",
              "r", "a", " ", "i", "m", "p", "l", "e", "m", "e", "n", "t", "a", "r",
              " ", "o", "u", " ", "m", "e", "l", "h", "o", "r", "a", "r", " ", "s",
              "u", "a", " ", "l", "o", "j", "a", " ", "v", "i", "r", "t", "u", "a",
              "l", ".">>,
                <<"h", "t", "t", "p", "s", ":", "/", "/", "s", "e", "b", "r", "a", "e",
              ".", "c", "o", "m", ".", "b", "r", "/", "s", "i", "t", "e", "s", "/",
              "P", "o", "r", "t", "a", "l", "S", "e", "b", "r", "a", "e", "/", "s",
              "e", "b", "r", "a", "e", "t", "e", "c">>,
                <<"C", "o", "n", "s", "u", "l", "t", "o", "r", "i", "a">>,
                <<"S", "e", "b", "r", "a", "e", "t", "e", "c">>,
                <<"V", "e", "n", "d", "a", "s">>),
    WebSolution(<<"C", "u", "r", "s", "o", " ", "O", "n", "l", "i", "n", "e", ":", " ",
              "G", "e", "s", "t", "ã", "o", " ", "d", "o", " ", "T", "e", "m", "p",
              "o">>,
                <<"A", "p", "r", "e", "n", "d", "a", " ", "a", " ", "o", "r", "g", "a",
              "n", "i", "z", "a", "r", " ", "m", "e", "l", "h", "o", "r", " ", "s",
              "e", "u", " ", "t", "e", "m", "p", "o", " ", "e", " ", "a", "u", "m",
              "e", "n", "t", "a", "r", " ", "s", "u", "a", " ", "p", "r", "o", "d",
              "u", "t", "i", "v", "i", "d", "a", "d", "e", ".">>,
                <<"h", "t", "t", "p", "s", ":", "/", "/", "s", "e", "b", "r", "a", "e",
              "p", "l", "a", "y", ".", "c", "o", "m", ".", "b", "r", "/">>,
                <<"C", "u", "r", "s", "o", " ", "O", "n", "l", "i", "n", "e">>,
                <<"S", "e", "b", "r", "a", "e", " ", "P", "l", "a", "y">>,
                <<"G", "e", "s", "t", "ã", "o">>),
    WebSolution(<<"C", "o", "n", "s", "u", "l", "t", "o", "r", "i", "a", " ", "e", "m",
              " ", "P", "r", "e", "c", "i", "f", "i", "c", "a", "ç", "ã", "o">>,
                <<"C", "o", "n", "s", "u", "l", "t", "o", "r", "i", "a", " ", "p", "a",
              "r", "a", " ", "d", "e", "f", "i", "n", "i", "r", " ", "p", "r", "e",
              "ç", "o", "s", " ", "a", "d", "e", "q", "u", "a", "d", "o", "s", " ",
              "p", "a", "r", "a", " ", "s", "e", "u", "s", " ", "p", "r", "o", "d",
              "u", "t", "o", "s", " ", "e", " ", "s", "e", "r", "v", "i", "ç", "o",
              "s", ".">>,
                <<"h", "t", "t", "p", "s", ":", "/", "/", "l", "o", "j", "a", ".", "s",
              "e", "b", "r", "a", "e", "m", "g", ".", "c", "o", "m", ".", "b", "r",
              "/">>,
                <<"C", "o", "n", "s", "u", "l", "t", "o", "r", "i", "a">>,
                <<"L", "o", "j", "a", " ", "S", "e", "b", "r", "a", "e", " ", "M", "G">>,
                <<"F", "i", "n", "a", "n", "ç", "a", "s">>)
  >>

\* "if not any(...): self.solutions.append(solution)" from the k-th default on
RECURSIVE AddDefaults(_, _)
AddDefaults(solutions, k) ==
    IF k > Len(default_solutions) THEN solutions
    ELSE IF \E j \in 1..Len(solutions) :
                /\ Cell(solutions[j], NomeSolucao) = default_solutions[k][NomeSolucao]
                /\ Cell(solutions[j], "Fonte") = default_solutions[k]["Fonte"]
         THEN AddDefaults(solutions, k + 1)
         ELSE AddDefaults(Append(solutions, default_solutions[k]), k + 1)

add_default_solutions(solutions) == AddDefaults(solutions, 1)

\* required_columns of scrape_all, without 'Data de coleta'
ScraperColumns == {NomeSolucao, "Descrição", "Link", "Modalidade", "Fonte", "Tema"}

\* scrape_all once the sites have filled self.solutions: [raised, df]
Scraped(d) ==
    IF d.raised THEN d
    ELSE [raised |-> FALSE, df |-> WithColumns(d.df, ScraperColumns, <<>>)]

scrape_all(solutions) == Scraped(drop_duplicates(DataFrame(solutions)))

\* the frame scrape_web_solutions stores in web_solutions and returns, for the
\* list the sites put into self.solutions; scraped is scrape_all's outcome
WebFrame(solutions, scraped) ==
    IF scraped.raised THEN Frame(ScraperColumns, <<>>)
    ELSE IF Len(scraped.df.rows) < MinWebSolutions
    THEN DataFrame(add_default_solutions(solutions))
    ELSE scraped.df

scrape_web_solutions(solutions) == WebFrame(solutions, scrape_all(solutions))

\* ---- combine_solutions ----

ExcelCols == {NomeSolucao, "Descrição", "Cidade", "Regional", "Modalidade", "Tema", "Público-alvo", "Fonte"}

WebCols == {NomeSolucao, "Descrição", "Modalidade", "Tema", "Fonte", "Link", "Data de coleta"}

RequiredColumns == {NomeSolucao, "Descrição", "Modalidade", "Tema", "Fonte"}

\* the rows of the web before those of the spreadsheet
concat_WebFirst(df_excel, df_web) == Frame(df_excel.columns, df_web.rows \o df_excel.rows)

\* pd.concat([df_excel, df_web], ignore_index=True) of frames with the same
\* columns
concat(df_excel, df_web) == Frame(df_excel.columns, df_excel.rows \o df_web.rows)

\* "self.combined_solutions = df; return df"
Kept(df) == [returned |-> df, combined_solutions |-> df]

\* the rest of the merge once the duplicates are dropped: [returned,
\* combined_solutions]; a KeyError leaves the field as it was
Merged(combined_solutions, d) ==
    IF d.raised
    THEN [returned |-> NoFrame, combined_solutions |-> combined_solutions]
    ELSE Kept(fillna(WithColumns(d.df, RequiredColumns, <<>>)))

\* both sources hold rows: the selected columns of each, the columns of the
\* other added as None
Both(combined_solutions, df_excel, df_web) ==
    Merged(combined_solutions,
           drop_duplicates(concat(WithColumns(df_excel, df_web.columns, Null),
                                  WithColumns(df_web, df_excel.columns, Null))))

\* [returned, combined_solutions] of combine_solutions on an object with the
\* given fields
combine_solutions(solutions_data, web_solutions, combined_solutions) ==
    IF solutions_data.none \/ Len(solutions_data.rows) = 0
    THEN IF ~web_solutions.none
         THEN Kept(web_solutions)
         ELSE [returned |-> NoFrame, combined_solutions |-> combined_solutions]
    ELSE IF web_solutions.none \/ Len(web_solutions.rows) = 0
    THEN Kept(solutions_data)
    ELSE Both(combined_solutions,
              Selected(solutions_data, ExcelCols \cap solutions_data.columns),
              Selected(web_solutions, WebCols \cap web_solutions.columns))

\* ---- preprocess_solutions_data ----

\* what preprocess_solutions_data returns: None without a combined catalog,
\* else a copy of it with the nulls filled and the missing columns added
preprocess_solutions_data(combined_solutions) ==
    IF combined_solutions.none THEN NoFrame
    ELSE WithColumns(fillna(combined_solutions), RequiredColumns, <<>>)

\* ---- the radar data and its stages (data_integration.py, app.py) ----

\* A cell of a radar frame is a text, an integer or NaN.
PyStr(s) == [number |-> 0, text |-> s, kind |-> "str"]

PyInt(n) == [number |-> n, text |-> <<>>, kind |-> "int"]

PyNaN == [number |-> 0, text |-> <<>>, kind |-> "nan"]

\* f'{x}'
format(x) ==
    IF x.kind = "int" THEN str(x.number)
    ELSE IF x.kind = "nan" THEN <<"n", "a", "n">>
    ELSE x.text

\* stage_mapping, the same dict in the three places
stage_mapping ==
    <<<<"N", "o", "m", "e", "a", "r">>,
      <<"E", "l", "a", "b", "o", "r", "a", "r">>,
      <<"E", "x", "p", "e", "r", "i", "m", "e", "n", "t", "a", "r">>,
      <<"E", "v", "o", "l", "u", "i", "r">>,
      <<"C", "o", "n", "c", "l", "u", "í", "d", "o">>>>

\* x in stage_mapping
IsStageKey(x) == x.kind = "int" /\ x.number \in DOMAIN stage_mapping

\* stage_mapping.get(x, x) of preprocess_radar_data
StageOrSelf(x) == IF IsStageKey(x) THEN PyStr(stage_mapping[x.number]) ELSE x

Estagio == <<"E", "s", "t", "á", "g", "i", "o", " ">>

\* stage_mapping.get(x, f'Estágio {x}') of the dashboard
StageOrPlaceholder(x) ==
    IF IsStageKey(x) THEN PyStr(stage_mapping[x.number]) ELSE PyStr(Estagio \o format(x))

\* df[new] = df[col].map(F)
MapColumn(df, col, new, F(_)) ==
    Frame(df.columns \cup {new},
          [k \in 1..Len(df.rows) |->
              [c \in df.columns \cup {new} |->
                  IF c = new THEN F(df.rows[k][col]) ELSE df.rows[k][c]]])

\* column_mapping of preprocess_radar_data
radar_column_mapping ==
    ("Nome Empresa" :> "Nome da empresa") @@ ("Escritório Regional" :> "Regional")
        @@ ("Município" :> "Cidade") @@ ("Categoria do Problema" :> "Desafio priorizado")
        @@ ("Descrição do Problema" :> "Necessidade específica")
        @@ ("Média diagnóstico inicial" :> "Maturidade em inovação")
        @@ ("Encontro" :> "Estágio do diagnóstico")

\* df.rename(columns=valid_columns) on a sheet whose renamed columns are new
RadarRenamed(df) ==
    Frame({get(radar_column_mapping, col, col) : col \in df.columns},
          [k \in 1..Len(df.rows) |->
              [new \in {get(radar_column_mapping, col, col) : col \in df.columns} |->
                  df.rows[k][CHOOSE col \in df.columns :
                                 get(radar_column_mapping, col, col) = new]]])

\* the stages of the renamed frame mapped, where it has the column
StageMapped(df) ==
    IF "Estágio do diagnóstico" \in df.columns
    THEN MapColumn(df, "Estágio do diagnóstico", "Estágio do diagnóstico", StageOrSelf)
    ELSE df

\* df[col].fillna('') on the columns of dtype object, those that hold a text
RadarFilled(df) ==
    Frame(df.columns,
          [k \in 1..Len(df.rows) |->
              [col \in df.columns |->
                  IF /\ df.rows[k][col] = PyNaN
                     /\ \E j \in 1..Len(df.rows) : df.rows[j][col].kind = "str"
                  THEN PyStr(<<>>)
                  ELSE df.rows[k][col]]])

\* what preprocess_radar_data returns for the radar_data of the object
preprocess_radar_data(radar_data) ==
    IF radar_data.none THEN NoFrame
    ELSE RadarFilled(StageMapped(RadarRenamed(radar_data)))

\* df[col].value_counts(): the values but NaN, each with its number of rows
value_counts(df, col) ==
    [v \in {df.rows[k][col] : k \in 1..Len(df.rows)} \ {PyNaN} |->
        Cardinality({k \in 1..Len(df.rows) : df.rows[k][col] = v})]

\* plot_companies_by_stage: [raised, stage_counts]; a frame with neither
\* column raises KeyError
plot_companies_by_stage(radar_data) ==
    IF "Estágio do diagnóstico" \in radar_data.columns
    THEN [raised |-> FALSE, stage_counts |-> value_counts(radar_data, "Estágio do diagnóstico")]
    ELSE IF "Encontro" \in radar_data.columns
    THEN [raised |-> FALSE,
          stage_counts |-> value_counts(MapColumn(radar_data, "Encontro", "Estágio",
                                                  StageOrPlaceholder), "Estágio")]
    ELSE [raised |-> TRUE, stage_counts |-> EmptyDict]

\* the characters of the stage names and placeholders in code point order
CodePoints == <<" ", "0">> \o DigitChars \o UpperLetters \o LowerLetters \o <<"á", "í">>

ord(c) == CHOOSE i \in 1..Len(CodePoints) : CodePoints[i] = c

\* a < b of two texts
StrLess(a, b) ==
    \E i \in 1..(Len(a) + 1) :
        /\ i <= Len(b)
        /\ \A j \in 1..(i - 1) : a[j] = b[j]
        /\ (i = Len(a) + 1 \/ ord(a[i]) < ord(b[i]))

\* x < y of two values of one kind
PyLess(x, y) == IF x.kind = "int" THEN x.number < y.number ELSE StrLess(x.text, y.text)

\* df[col].unique(): the values in the order of their first rows
unique(df, col) ==
    LET first == {k \in 1..Len(df.rows) :
                      \A j \in 1..(k - 1) : df.rows[j][col] # df.rows[k][col]}
    IN  [i \in 1..Cardinality(first) |->
            df.rows[CHOOSE k \in first : Cardinality({j \in first : j <= k}) = i][col]]

\* ["Todos"] + sorted(values): TypeError (raised) when texts and integers mix
Options(values) ==
    IF \E i, j \in 1..Len(values) : values[i].kind # values[j].kind
    THEN [raised |-> TRUE, estagios |-> <<>>]
    ELSE [raised |-> FALSE, estagios |-> <<PyStr(<<"T", "o", "d", "o", "s">>)>> \o SortSeq(values, PyLess)]

\* the options of the stage filter of main: [raised, estagios]
stage_filter(radar_data) ==
    IF "Estágio do diagnóstico" \in radar_data.columns
    THEN Options(unique(radar_data, "Estágio do diagnóstico"))
    ELSE IF "Encontro" \in radar_data.columns
    THEN Options([i \in 1..Len(unique(radar_data, "Encontro")) |->
                      StageOrPlaceholder(unique(radar_data, "Encontro")[i])])
    ELSE [raised |-> TRUE, estagios |-> <<>>]

\* DataIntegration.radar_data after __init__ and a dashboard that has loaded
\* nothing: the frame load_data handed to main (radar_processed), the options
\* of its stage filter, the counts of its stage chart, whether the last
\* operation raised, and that operation
NewRadar ==
    [raised |-> FALSE, radar_data |-> NoFrame, stage_counts |-> EmptyDict, estagios |-> <<>>,
     op |-> "__init__", radar_processed |-> NoFrame]

\* DataIntegration.__init__.  Next to the fields of the object the record keeps
\* the last operation (op), the value the last load, scrape or combine call
\* returned (returned), the number of combine_solutions calls made since the
\* sources were last loaded (runs), what the call before the last one returned
\* (previous) and what the last preprocess_solutions_data call returned
\* (processed).
NewDataIntegration ==
    [solutions_data |-> NoFrame, web_solutions |-> NoFrame,
     combined_solutions |-> NoFrame, returned |-> NoFrame, op |-> "__init__",
     runs |-> 0, previous |-> NoFrame, processed |-> NoFrame]

\* ------------------------------------------------------------------------
\* State
\* ------------------------------------------------------------------------

VARIABLES
    recommendation_cache,   \* RecommendationSystem.recommendation_cache: key -> list
    api_calls,              \* completion calls made per (company name, challenge)
                            \* since the cache was last created or cleared
    last,                   \* the last operation: its arguments, result and trace
    recommendation_text,    \* argument of a direct parse_recommendations call
    catalog,                \* its available_solutions argument
    parsed,                 \* its result
    data_integration,       \* the DataIntegration object: its fields, and the last
                            \* operation on it with the value it returned
    radar,                  \* DataIntegration.radar_data, the frame the dashboard
                            \* holds, its stage filter and its stage chart
    in_flight               \* per caller: where its get_recommendations call
                            \* stands, and the arguments of the call

vars ==
    <<recommendation_cache, api_calls, last, recommendation_text, catalog, parsed,
      data_integration, radar, in_flight>>

\* ------------------------------------------------------------------------
\* Inputs
\* ------------------------------------------------------------------------

MaxCalls == 2       \* completion calls per (company name, challenge) between clears

\* message.content as the service sends it, before .strip()
Text_Strict   == <<" ", "1", ".", " ", "[", "A", "b", "]", ":", " ", "x", NL>>
Text_Degraded == <<"1", " ", "-", " ", "C", "u", "r", "s", "o", " ", "X", " ", "-", " ",
                   "t", "e", "x", "t", "o">>
Text_Raising  == <<"1", ":", " ", "a", ".", " ", "b">>

Sol_Ab  == (NomeSolucao :> <<"A", "b">>) @@ ("Tema" :> "Vendas")
Sol_abc == (NomeSolucao :> <<"a", "b", "c">>) @@ ("Tema" :> "Marketing")
Sol_AB  == (NomeSolucao :> <<"A", "B">>) @@ ("Tema" :> "Gestão")

Catalogs == {<<>>, <<Sol_Ab>>, <<Sol_abc, Sol_Ab>>}

Companies ==
    { EmptyDict,
      ("Nome da empresa" :> "A") @@ ("Desafio priorizado" :> "B-C"),
      ("Nome da empresa" :> "A-B") @@ ("Desafio priorizado" :> "C"),
      ("Nome Empresa" :> "E") @@ ("Categoria do Problema" :> "V") }

Pairs == {<<company_name_of(c, ""), challenge_of(c)>> : c \in Companies}

Services ==
    {[fails |-> TRUE, content |-> <<>>]}
        \cup {[fails |-> FALSE, content |-> t] :
                 t \in {Text_Strict, Text_Degraded, Text_Raising}}

\* responses to the adherence prompt: two entries, one with a score above 10
\* and none for a third company; and a text without entries
Text_Scores ==
    <<"E", "m", "p", "r", "e", "s", "a", " ", "1", ":", " ", "8", "/", "1", "0", " ",
      "-", " ", "b", "o", "a", "\n", "E", "m", "p", "r", "e", "s", "a", " ", "2", ":",
      " ", "1", "5", "/", "1", "0", " ", "-", " ", "x">>
Text_NoScores == <<"n", "a", "d", "a">>
\* an entry for a tenth company only; and a first entry without a score
Text_Ten ==
    <<"E", "m", "p", "r", "e", "s", "a", " ", "1", "0", ":", " ", "9", "/", "1", "0", " ",
      "-", " ", "z">>
Text_Gap ==
    <<"E", "m", "p", "r", "e", "s", "a", " ", "1", ":", " ", "-", "\n", "E", "m", "p", "r",
      "e", "s", "a", " ", "2", ":", " ", "7", "/", "1", "0", " ", "-", " ", "y">>

AdherenceServices ==
    {[fails |-> TRUE, content |-> <<>>]}
        \cup {[fails |-> FALSE, content |-> t] : t \in {Text_Scores, Text_NoScores, Text_Ten, Text_Gap}}

Co_A       == ("Nome da empresa" :> "A") @@ ("Desafio priorizado" :> "B-C")
Co_E       == ("Nome Empresa" :> "E") @@ ("Categoria do Problema" :> "V")
Co_Unnamed == ("Setor" :> "S")

\* no company; three companies, one without a name; eleven companies, two of
\* them with the same name
CompanyLists ==
    { <<>>,
      <<Co_A, Co_E, Co_Unnamed>>,
      <<Co_A, Co_E, Co_Unnamed, Co_A, Co_Unnamed, Co_Unnamed, Co_Unnamed, Co_Unnamed,
        Co_Unnamed, Co_Unnamed, Co_Unnamed>> }

Solutions == {Sol_Ab, ("Tema" :> "Vendas")}

\* responses to the course prompt: the format asked for, and numbered
\* sections without brackets
Text_Courses ==
    <<"1", ".", " ", "[", "A", "b", "]", "\n", " ", "-", " ", "M", "o", "d", "a", "l",
      "i", "d", "a", "d", "e", ":", " ", "C", "\n", " ", "-", " ", "T", "e", "m", "a",
      ":", " ", "T", "\n", "2", ".", " ", "[", "C", "d", "]", "\n", " ", "-", " ", "T",
      "e", "m", "a", ":", "\n", " ", "-", " ", "D", "e", "s", "c", "r", "i", "ç", "ã",
      "o", ":", " ", "D">>
Text_Sections ==
    <<"1", ".", " ", "A", "b", "\n", "-", " ", "M", "o", "d", "a", "l", "i", "d", "a",
      "d", "e", ":", " ", "C", "\n", "-", " ", "T", "e", "m", "a", ":", " ", "T", "\n",
      "2", ".", " ", "C", "d", "\n", "-", " ", "J", "u", "s", "t", "i", "f", "i", "c",
      "a", "t", "i", "v", "a", ":", " ", "J">>

\* sections whose labels have no blank after the colon
Text_Tight ==
    <<"1", ".", " ", "A", "b", "\n", "-", " ", "T", "e", "m", "a", ":", "T", "\n", "-", " ",
      "D", "e", "s", "c", "r", "i", "ç", "ã", "o", ":", "D", "e">>

CourseServices ==
    {[fails |-> TRUE, content |-> <<>>]}
        \cup {[fails |-> FALSE, content |-> t] : t \in {Text_Courses, Text_Sections, Text_Tight}}

\* get_regional_data returns None or the aggregates of the regional
RegionalData ==
    { EmptyDict,
      ("top_challenges" :> <<[challenge |-> "V", count |-> 2]>>)
          @@ ("top_sectors" :> <<>>) @@ ("maturity_distribution" :> EmptyDict) }

NoCall ==
    [op |-> "__init__", company_data |-> EmptyDict, available_solutions |-> <<>>,
     service |-> [fails |-> TRUE, content |-> <<>>], cache_before |-> EmptyDict,
     prompt |-> [built |-> FALSE],
     solution |-> EmptyDict, companies_data |-> <<>>, regional_data |-> EmptyDict,
     result |-> Outcome(<<>>, EmptyDict, <<>>, <<>>, 0, "constructed")]

MaxInFlight == 2    \* callers of get_recommendations on one RecommendationSystem

Callers == 1..MaxInFlight

\* no get_recommendations call is running: every caller has returned
NoRequests ==
    [t \in Callers |-> [available_solutions |-> <<>>, company_data |-> EmptyDict,
                        pc |-> "return"]]

\* ------------------------------------------------------------------------
\* Operations on one RecommendationSystem
\* ------------------------------------------------------------------------

Init ==
    /\ recommendation_cache = NewRecommendationSystem
    /\ api_calls = [p \in Pairs |-> 0]
    /\ last = NoCall
    /\ recommendation_text = <<>>
    /\ catalog = <<>>
    /\ parsed = parse_recommendations(<<>>, <<>>)
    /\ data_integration = NewDataIntegration
    /\ radar = NewRadar
    /\ in_flight = NoRequests

\* the state after a get_recommendations call with outcome r
Request(company_data, available_solutions, service, pair, r) ==
    /\ api_calls[pair] + r.invoked <= MaxCalls
    /\ recommendation_cache' = r.cache
    /\ api_calls' = [api_calls EXCEPT ![pair] = @ + r.invoked]
    /\ last' = [NoCall EXCEPT !.op = "get_recommendations",
                              !.company_data = company_data,
                              !.available_solutions = available_solutions,
                              !.service = service,
                              !.cache_before = recommendation_cache,
                              !.result = r]
    /\ UNCHANGED <<recommendation_text, catalog, parsed, data_integration, radar, in_flight>>

\* app.py:467 passes no already_scheduled: it is the default, None
GetRecommendations ==
    \E company_data \in Companies, available_solutions \in Catalogs, service \in Services :
        Request(company_data, available_solutions, service,
                <<company_name_of(company_data, ""), challenge_of(company_data)>>,
                get_recommendations(recommendation_cache, company_data,
                                    available_solutions, <<>>, service))

ClearCache ==
    /\ recommendation_cache' = clear_cache(recommendation_cache)
    /\ api_calls' = [p \in Pairs |-> 0]
    /\ last' = [NoCall EXCEPT !.op = "clear_cache", !.cache_before = recommendation_cache,
                              !.result.how = "cleared"]
    /\ UNCHANGED <<recommendation_text, catalog, parsed, data_integration, radar, in_flight>>

\* app.py main(): every run of the dashboard script constructs a new
\* RecommendationSystem, whose cache starts empty
Main ==
    /\ recommendation_cache' = NewRecommendationSystem
    /\ api_calls' = [p \in Pairs |-> 0]
    /\ last' = [NoCall EXCEPT !.op = "main", !.cache_before = recommendation_cache]
    /\ UNCHANGED <<recommendation_text, catalog, parsed, data_integration, radar, in_flight>>

\* a direct call of generate_recommendation_prompt
GeneratePrompt ==
    \E company_data \in Companies, available_solutions \in Catalogs :
        /\ last' = [NoCall EXCEPT
                        !.op = "generate_recommendation_prompt",
                        !.company_data = company_data,
                        !.available_solutions = available_solutions,
                        !.cache_before = recommendation_cache,
                        !.prompt = generate_recommendation_prompt(company_data,
                                                                  available_solutions, <<>>),
                        !.result.cache = recommendation_cache,
                        !.result.available_solutions = available_solutions,
                        !.result.how = "prompt"]
        /\ UNCHANGED <<recommendation_cache, api_calls, recommendation_text, catalog, parsed,
                 data_integration, radar, in_flight>>

\* the state after a calculate_solution_adherence call with answer r: the cache
\* is neither read nor written
AdherenceAnswered(solution, companies_data, service, r) ==
    /\ last' = [NoCall EXCEPT !.op = "calculate_solution_adherence",
                              !.service = service,
                              !.solution = solution,
                              !.companies_data = companies_data,
                              !.cache_before = recommendation_cache,
                              !.result.cache = recommendation_cache,
                              !.result.returned = r.returned,
                              !.result.invoked = r.invoked,
                              !.result.how = r.how,
                              !.result.raised = r.raised]
    /\ UNCHANGED <<recommendation_cache, api_calls, recommendation_text, catalog, parsed,
                 data_integration, radar, in_flight>>

CalculateSolutionAdherence ==
    \E solution \in Solutions, companies_data \in CompanyLists,
       service \in AdherenceServices :
        AdherenceAnswered(solution, companies_data, service,
                          calculate_solution_adherence(solution, companies_data, service))

\* the state after a suggest_new_courses call with answer r
CoursesAnswered(regional_data, service, r) ==
    /\ last' = [NoCall EXCEPT !.op = "suggest_new_courses",
                              !.service = service,
                              !.regional_data = regional_data,
                              !.cache_before = recommendation_cache,
                              !.result.cache = recommendation_cache,
                              !.result.returned = r.returned,
                              !.result.invoked = r.invoked,
                              !.result.how = r.how,
                              !.result.raised = r.raised]
    /\ UNCHANGED <<recommendation_cache, api_calls, recommendation_text, catalog, parsed,
                 data_integration, radar, in_flight>>

\* app.py:913 passes the catalog records as the solutions already scheduled
SuggestNewCourses ==
    \E regional_data \in RegionalData, service \in CourseServices :
        CoursesAnswered(regional_data, service,
                        suggest_new_courses(regional_data, <<Sol_Ab>>, service))

Next ==
    \/ GetRecommendations
    \/ ClearCache
    \/ Main
    \/ GeneratePrompt
    \/ CalculateSolutionAdherence
    \/ SuggestNewCourses

Spec == Init /\ [][Next]_vars

\* ------------------------------------------------------------------------
\* parse_recommendations called directly on responses built line by line
\* ------------------------------------------------------------------------

MaxLines == 2           \* lines of any form at the head of a response
MaxRecordLines == 6     \* lines of a response made of entry lines only

\* the names the responses use: "Ab" is a catalog name, "zz" matches nothing,
\* "b" is part of a catalog name
NameOf(k) == <<<<"A", "b">>, <<"z", "z">>, <<"b">>>>[(k % 3) + 1]

\* k. [Name]: x
StrictLine(k) == <<DigitChars[k], ".", " ", "[">> \o NameOf(k) \o <<"]", ":", " ", "x">>

\* k. Name: y
LooseLine(k) == <<DigitChars[k], ".", " ">> \o NameOf(k) \o <<":", " ", "y">>

\* Name: z
PlainLine(k) == NameOf(k) \o <<":", " ", "z">>

EntryLines(k) == {StrictLine(k), LooseLine(k), PlainLine(k)}

\* k. Name     k - Name - x     k: a. b     Name :z:w     w     a blank line
OtherLines(k) ==
    { <<DigitChars[k], ".", " ">> \o NameOf(k),
      <<DigitChars[k], " ", "-", " ">> \o NameOf(k) \o <<" ", "-", " ", "x">>,
      <<DigitChars[k], ":", " ", "a", ".", " ", "b">>,
      NameOf(k) \o <<" ", ":", "z", ":", "w">>,
      <<"w">>,
      <<" ">> }

\* no catalog; "abc" before "Ab"; and two records named "ab", letter case aside
ParseCatalogs == {<<>>, <<Sol_abc, Sol_Ab>>, <<Sol_Ab, Sol_abc, Sol_AB>>}

Lines(text) == IF text = <<>> THEN <<>> ELSE split(text, <<NL>>)

EntriesOnly(text) == \A k \in 1..Len(Lines(text)) : Lines(text)[k] \in EntryLines(k)

WithLine(text, line) == IF text = <<>> THEN line ELSE text \o <<NL>> \o line

InitParse ==
    /\ recommendation_cache = NewRecommendationSystem
    /\ api_calls = [p \in Pairs |-> 0]
    /\ last = NoCall
    /\ recommendation_text = <<>>
    /\ catalog \in ParseCatalogs
    /\ parsed = parse_recommendations(<<>>, catalog)
    /\ data_integration = NewDataIntegration
    /\ radar = NewRadar
    /\ in_flight = NoRequests

\* the response grows by one line and is parsed
Parse(text) ==
    /\ recommendation_text' = text
    /\ parsed' = parse_recommendations(text, catalog)
    /\ UNCHANGED <<recommendation_cache, api_calls, last, catalog, data_integration, radar, in_flight>>

AppendLine ==
    /\ Len(Lines(recommendation_text)) < MaxLines
    /\ \E line \in EntryLines(Len(Lines(recommendation_text)) + 1)
                     \cup OtherLines(Len(Lines(recommendation_text)) + 1) :
           Parse(WithLine(recommendation_text, line))

AppendEntry ==
    /\ Len(Lines(recommendation_text)) >= MaxLines
    /\ Len(Lines(recommendation_text)) < MaxRecordLines
    /\ EntriesOnly(recommendation_text)
    /\ \E line \in EntryLines(Len(Lines(recommendation_text)) + 1) :
           Parse(WithLine(recommendation_text, line))

NextParse == AppendLine \/ AppendEntry

SpecParse == InitParse /\ [][NextParse]_vars

\* ------------------------------------------------------------------------
\* DataIntegration: loading, scraping and combining the solutions
\* ------------------------------------------------------------------------

MaxSheetRows == 3   \* rows of the spreadsheet
MaxRuns == 2        \* combine_solutions calls on the same sources

\* a row of the spreadsheet as pd.read_excel gives it
SheetRow(acao, objetivo, cidade) ==
    ("Ação Destaque" :> acao) @@ ("Objetivo" :> objetivo) @@ ("Cidade" :> cidade)
        @@ ("Setor" :> <<"S">>)

\* the rows of the spreadsheet file: "Ab", "AB" without an objective, "Ab" in
\* another city, and others named "zz"
SheetRows(n) ==
    [k \in 1..n |->
        IF k = 1 THEN SheetRow(<<"A", "b">>, <<"o">>, <<"X">>)
        ELSE IF k = 2 THEN SheetRow(<<"A", "B">>, Null, <<"X">>)
        ELSE IF k = 3 THEN SheetRow(<<"A", "b">>, <<"o">>, <<"Y">>)
        ELSE SheetRow(<<"z", "z">>, <<"p">>, <<"X">>)]

SheetColumns == {"Ação Destaque", "Objetivo", "Cidade", "Setor"}

Sebraetec == <<"S", "e", "b", "r", "a", "e", "t", "e", "c">>

SebraePlay == <<"S", "e", "b", "r", "a", "e", " ", "P", "l", "a", "y">>

\* what the sites put into self.solutions: nothing; "Ab" twice and "ab"; the
\* first default solution and "Ab"; twenty solutions, the first one twice
Few == <<WebSolution(<<"A", "b">>, <<"d">>, <<"u">>, <<"C">>, Sebraetec, <<"T">>),
         WebSolution(<<"A", "b">>, <<"e">>, <<"v">>, <<"C">>, Sebraetec, <<"T">>),
         WebSolution(<<"a", "b">>, <<"d">>, <<"u">>, <<"C">>, Sebraetec, <<"T">>)>>

WithDefault == <<default_solutions[1],
                 WebSolution(<<"A", "b">>, <<"d">>, <<"u">>, <<"C">>, SebraePlay, <<"T">>)>>

Many ==
    [k \in 1..(MinWebSolutions + 1) |->
        WebSolution(<<"S">> \o str(IF k > MinWebSolutions THEN 1 ELSE k),
                    <<"d">>, <<"u">>, <<"C">>, Sebraetec, <<"T">>)]

Sites == {<<>>, Few, WithDefault, Many}

InitCombine ==
    /\ recommendation_cache = NewRecommendationSystem
    /\ api_calls = [p \in Pairs |-> 0]
    /\ last = NoCall
    /\ recommendation_text = <<>>
    /\ catalog = <<>>
    /\ parsed = parse_recommendations(<<>>, <<>>)
    /\ data_integration = NewDataIntegration
    /\ radar = NewRadar
    /\ in_flight = NoRequests

\* the state after a load_solutions_from_excel call with outcome r
SolutionsLoaded(r) ==
    /\ data_integration' = [data_integration EXCEPT !.op = "load_solutions_from_excel",
                                                    !.returned = r.returned,
                                                    !.solutions_data = r.solutions_data,
                                                    !.runs = 0,
                                                    !.previous = NoFrame]
    /\ UNCHANGED <<recommendation_cache, api_calls, last, recommendation_text, catalog, parsed, radar, in_flight>>

\* the spreadsheet cannot be read, or holds the first rows of the file, up to
\* MaxSheetRows of them
LoadSolutionsFromExcel ==
    \/ SolutionsLoaded(load_solutions_from_excel(data_integration.solutions_data, NoFrame))
    \/ \E n \in 0..MaxSheetRows :
           SolutionsLoaded(load_solutions_from_excel(data_integration.solutions_data,
                                                     Frame(SheetColumns, SheetRows(n))))

\* the state after a scrape_web_solutions call that returns df
WebScraped(df) ==
    /\ data_integration' = [data_integration EXCEPT !.op = "scrape_web_solutions",
                                                    !.returned = df,
                                                    !.web_solutions = df,
                                                    !.runs = 0,
                                                    !.previous = NoFrame]
    /\ UNCHANGED <<recommendation_cache, api_calls, last, recommendation_text, catalog, parsed, radar, in_flight>>

ScrapeWebSolutions == \E solutions \in Sites : WebScraped(scrape_web_solutions(solutions))

\* the state after a combine_solutions call with outcome r
Combined(r) ==
    /\ data_integration.runs < MaxRuns
    /\ data_integration' = [data_integration EXCEPT !.op = "combine_solutions",
                                                    !.returned = r.returned,
                                                    !.combined_solutions = r.combined_solutions,
                                                    !.runs = @ + 1,
                                                    !.previous = data_integration.returned]
    /\ UNCHANGED <<recommendation_cache, api_calls, last, recommendation_text, catalog, parsed, radar, in_flight>>

CombineSolutions ==
    Combined(combine_solutions(data_integration.solutions_data,
                               data_integration.web_solutions,
                               data_integration.combined_solutions))

\* preprocess_solutions_data works on a copy: the fields of the object stay
PreprocessSolutionsData ==
    /\ data_integration' =
           [data_integration EXCEPT !.op = "preprocess_solutions_data",
                                    !.processed = preprocess_solutions_data(
                                                      data_integration.combined_solutions)]
    /\ UNCHANGED <<recommendation_cache, api_calls, last, recommendation_text, catalog, parsed, radar, in_flight>>

NextCombine ==
    \/ LoadSolutionsFromExcel
    \/ ScrapeWebSolutions
    \/ CombineSolutions
    \/ PreprocessSolutionsData

SpecCombine == InitCombine /\ [][NextCombine]_vars

\* ------------------------------------------------------------------------
\* The radar data: loading, preprocessing, stage filter and stage chart
\* ------------------------------------------------------------------------

MaxCompanies == 2   \* rows of the radar sheet
MaxCode == 7        \* the largest stage code of the radar sheet

\* the radar sheet as pd.read_excel gives it, with the columns that the
\* filters of main read before the stage filter: the k-th company with the
\* k-th code; the second company has no name
RadarSheet(codes) ==
    Frame({"Nome Empresa", "Escritório Regional", "Setor", "Encontro"},
          [k \in 1..Len(codes) |->
              ("Nome Empresa" :> (IF k = 2 THEN PyNaN ELSE PyStr(<<"E">>)))
                  @@ ("Escritório Regional" :> PyStr(<<"R">>)) @@ ("Setor" :> PyStr(<<"S">>))
                  @@ ("Encontro" :> PyInt(codes[k]))])

\* a sheet that has no stage column
SheetWithoutStage ==
    Frame({"Nome Empresa", "Escritório Regional", "Setor"},
          <<("Nome Empresa" :> PyStr(<<"E">>)) @@ ("Escritório Regional" :> PyStr(<<"R">>))
                @@ ("Setor" :> PyStr(<<"S">>))>>)

RadarSheets ==
    {SheetWithoutStage}
        \cup {RadarSheet(codes) : codes \in UNION {[1..n -> 0..MaxCode] : n \in 0..MaxCompanies}}

InitStage ==
    /\ recommendation_cache = NewRecommendationSystem
    /\ api_calls = [p \in Pairs |-> 0]
    /\ last = NoCall
    /\ recommendation_text = <<>>
    /\ catalog = <<>>
    /\ parsed = parse_recommendations(<<>>, <<>>)
    /\ data_integration = NewDataIntegration
    /\ radar = NewRadar
    /\ in_flight = NoRequests

\* load_data makes a new DataIntegration and calls load_radar_data_from_excel:
\* the file cannot be read, or holds one of the sheets
LoadRadarDataFromExcel ==
    /\ \/ radar' = [NewRadar EXCEPT !.op = "load_radar_data_from_excel"]
       \/ \E sheet \in RadarSheets :
              radar' = [NewRadar EXCEPT !.op = "load_radar_data_from_excel",
                                       !.radar_data = sheet]
    /\ UNCHANGED <<recommendation_cache, api_calls, last, recommendation_text, catalog, parsed,
                   data_integration, in_flight>>

\* load_data goes on to preprocess_radar_data and returns what it returns
PreprocessRadarData ==
    /\ radar.op = "load_radar_data_from_excel"
    /\ radar' = [radar EXCEPT !.op = "preprocess_radar_data",
                              !.radar_processed = preprocess_radar_data(radar.radar_data)]
    /\ UNCHANGED <<recommendation_cache, api_calls, last, recommendation_text, catalog, parsed,
                   data_integration, in_flight>>

\* a run of main on the frame load_data returned builds the stage filter
MainStageFilter ==
    /\ radar.op # "load_radar_data_from_excel"
    /\ ~radar.radar_processed.none
    /\ radar' = [radar EXCEPT !.op = "main",
                              !.raised = stage_filter(radar.radar_processed).raised,
                              !.estagios = stage_filter(radar.radar_processed).estagios,
                              !.stage_counts = EmptyDict]
    /\ UNCHANGED <<recommendation_cache, api_calls, last, recommendation_text, catalog, parsed,
                   data_integration, in_flight>>

\* the run goes on to the stage chart of a copy of that frame
PlotCompaniesByStage ==
    /\ radar.op = "main"
    /\ ~radar.raised
    /\ radar' = [radar EXCEPT !.op = "plot_companies_by_stage",
                              !.raised = plot_companies_by_stage(radar.radar_processed).raised,
                              !.stage_counts =
                                  plot_companies_by_stage(radar.radar_processed).stage_counts]
    /\ UNCHANGED <<recommendation_cache, api_calls, last, recommendation_text, catalog, parsed,
                   data_integration, in_flight>>

NextStage ==
    \/ LoadRadarDataFromExcel
    \/ PreprocessRadarData
    \/ MainStageFilter
    \/ PlotCompaniesByStage

SpecStage == InitStage /\ [][NextStage]_vars

\* ------------------------------------------------------------------------
\* get_recommendations called by several callers of one RecommendationSystem
\* ------------------------------------------------------------------------

\* get_recommendations takes no lock and waits for the completion service
\* between its cache lookup and its cache store: a caller that runs while
\* another waits sees the cache as it is then.

\* the catalogs the callers pass: those of Catalogs, and the catalog after its
\* record "Ab" was replaced by the record "AB"
CallerCatalogs == Catalogs \cup {<<Sol_AB>>}

InitInterleave ==
    /\ recommendation_cache = NewRecommendationSystem
    /\ api_calls = [p \in Pairs |-> 0]
    /\ last = NoCall
    /\ recommendation_text = <<>>
    /\ catalog = <<>>
    /\ parsed = parse_recommendations(<<>>, <<>>)
    /\ data_integration = NewDataIntegration
    /\ radar = NewRadar
    /\ in_flight = NoRequests

\* the state after caller t ran get_recommendations up to its return or up
\* to the completion call, with outcome r
Checked(t, company_data, available_solutions, pair, r) ==
    /\ api_calls[pair] + r.invoked <= MaxCalls
    /\ api_calls' = [api_calls EXCEPT ![pair] = @ + r.invoked]
    /\ in_flight' = [in_flight EXCEPT ![t] =
                        IF r.how = "create"
                        THEN [available_solutions |-> available_solutions,
                              company_data |-> company_data, pc |-> "create"]
                        ELSE NoRequests[t]]
    /\ last' = [NoCall EXCEPT !.op = "get_recommendations",
                              !.company_data = company_data,
                              !.available_solutions = available_solutions,
                              !.cache_before = recommendation_cache,
                              !.result = r]
    /\ UNCHANGED <<recommendation_cache, recommendation_text, catalog, parsed,
                   data_integration, radar>>

\* a caller enters get_recommendations
Check(t) ==
    /\ in_flight[t].pc = "return"
    /\ \E company_data \in Companies, available_solutions \in CallerCatalogs :
           Checked(t, company_data, available_solutions,
                   <<company_name_of(company_data, ""), challenge_of(company_data)>>,
                   CheckCache(recommendation_cache, company_data, available_solutions, <<>>))

\* the state after the completion call of caller t answered, with outcome r
Answered(t, service, r) ==
    /\ recommendation_cache' = r.cache
    /\ in_flight' = [in_flight EXCEPT ![t] = NoRequests[t]]
    /\ last' = [NoCall EXCEPT !.op = "get_recommendations",
                              !.company_data = in_flight[t].company_data,
                              !.available_solutions = in_flight[t].available_solutions,
                              !.service = service,
                              !.cache_before = recommendation_cache,
                              !.result = r]
    /\ UNCHANGED <<api_calls, recommendation_text, catalog, parsed, data_integration, radar>>

\* the completion call of a waiting caller answers or raises
CreateReturns(t) ==
    /\ in_flight[t].pc = "create"
    /\ \E service \in Services :
           Answered(t, service,
                    RequestAndParse(recommendation_cache,
                                    cache_key_of(in_flight[t].company_data),
                                    in_flight[t].available_solutions, service))

NextInterleave ==
    \/ \E t \in Callers : Check(t)
    \/ \E t \in Callers : CreateReturns(t)

SpecInterleave == InitInterleave /\ [][NextInterleave]_vars

\* ------------------------------------------------------------------------
\* Properties of the recommendation cache (checked under Spec)
\* ------------------------------------------------------------------------

KeyOfPair(p) == p[1] \o "-" \o p[2]

LastIsRequest == last.op = "get_recommendations"

LastKey == cache_key_of(last.company_data)

LastPair == <<company_name_of(last.company_data, ""), challenge_of(last.company_data)>>

\* the ways a get_recommendations request fails
Failures == {"no_company", "no_catalog", "no_prompt", "service_error", "parse_error"}

\* C1, as stated: between two clears the completion service is invoked at most
\* once for every (company name, challenge) key.
C1_AtMostOnePerKey == \A p \in Pairs : api_calls[p] <= 1

\* C1, amended: while a key has a cache entry no request invokes the completion
\* service for it, and a request makes at most one call; so a key sees one call
\* that stored a result, preceded only by calls that raised.
C1_NoCallWhileCached ==
    [][ /\ \A p \in Pairs :
              KeyOfPair(p) \in DOMAIN recommendation_cache => api_calls'[p] <= api_calls[p]
        /\ \A p \in Pairs : api_calls'[p] <= api_calls[p] + 1 ]_vars

\* two identical requests have been made and the service was called once
C1_Witness ==
    /\ LastIsRequest
    /\ last.result.how = "cache_hit"
    /\ api_calls[LastPair] = 1

\* C2, as stated: a request whose key is already stored returns the stored list
\* and runs neither the prompt builder, the completion call nor the parser.
C2_SameKeyReturnsStored ==
    (LastIsRequest /\ LastKey \in DOMAIN last.cache_before)
        => /\ last.result.returned = last.cache_before[LastKey]
           /\ last.result.steps = <<>>
           /\ last.result.invoked = 0

\* C2, amended: the same, for requests that pass a non-empty catalog.
C2_SameKeyWithCatalogReturnsStored ==
    (LastIsRequest /\ LastKey \in DOMAIN last.cache_before /\ last.available_solutions # <<>>)
        => /\ last.result.returned = last.cache_before[LastKey]
           /\ last.result.steps = <<>>
           /\ last.result.invoked = 0
           /\ recommendation_cache = last.cache_before

\* a stored, non-empty list has been returned from the cache
C2_Witness ==
    /\ LastIsRequest
    /\ LastKey \in DOMAIN last.cache_before
    /\ last.available_solutions # <<>>
    /\ last.result.returned # <<>>

\* C3: only clear_cache removes or replaces a cache entry.
C3_OnlyClearCacheEmpties ==
    last.op # "clear_cache"
        => \A k \in DOMAIN last.cache_before :
               k \in DOMAIN recommendation_cache
                   /\ recommendation_cache[k] = last.cache_before[k]

\* C4: a failed request leaves the cache and the catalog as they were, and
\* returns the empty list.
C4_FailedRequestChangesNothing ==
    (LastIsRequest /\ last.result.how \in Failures)
        => /\ recommendation_cache = last.cache_before
           /\ last.result.available_solutions = last.available_solutions
           /\ last.result.returned = <<>>

\* a request failed in the parser while the cache held an entry
C4_Witness ==
    /\ LastIsRequest
    /\ last.result.how = "parse_error"
    /\ last.cache_before # EmptyDict

\* C5: a request that extracts no record creates no cache entry.
C5_NoEntryWithoutRecords ==
    (LastIsRequest /\ last.result.returned = <<>>)
        => DOMAIN recommendation_cache = DOMAIN last.cache_before

\* the last operation called the completion service and the call raised
ServiceFailed ==
    /\ last.op \in {"get_recommendations", "calculate_solution_adherence",
                    "suggest_new_courses"}
    /\ last.result.how = "service_error"

\* the companies of the last adherence request that go into the prompt
Sampled ==
    SubSeq(last.companies_data, 1, Min(AdherenceSampleSize, Len(last.companies_data)))

\* C6 as stated: when the completion service fails, get_recommendations,
\* calculate_solution_adherence and suggest_new_courses each return an empty
\* result, without raising and after a single call of the service.
C6_EmptyOnServiceFailure ==
    ServiceFailed
        => /\ last.result.returned = <<>>
           /\ ~last.result.raised
           /\ last.result.invoked = 1

\* C6: when the completion service fails, no operation raises and none calls
\* the service a second time; get_recommendations and suggest_new_courses
\* return the empty list, and calculate_solution_adherence returns one entry
\* per name of a sampled company, each with score 0 and the justification
\* "Erro ao calcular.".
C6_ServiceFailure ==
    ServiceFailed
        => /\ ~last.result.raised
           /\ last.result.invoked = 1
           /\ last.op \in {"get_recommendations", "suggest_new_courses"}
                  => last.result.returned = <<>>
           /\ last.op = "calculate_solution_adherence"
                  => /\ last.result.returned # <<>>
                     /\ \A k \in 1..Len(last.result.returned) :
                            /\ last.result.returned[k].score = 0
                            /\ last.result.returned[k].justification = ErroAoCalcular
                     /\ {last.result.returned[k].company_name :
                             k \in 1..Len(last.result.returned)}
                            = {AdherenceName(Sampled[n], n) : n \in 1..Len(Sampled)}

\* the service failed on an adherence request for more companies than the
\* prompt takes
C6_Witness ==
    /\ ServiceFailed
    /\ last.op = "calculate_solution_adherence"
    /\ Len(last.companies_data) > AdherenceSampleSize
    /\ last.result.returned # <<>>

\* C7: with an empty catalog generate_recommendation_prompt returns None, and
\* get_recommendations returns the empty list, runs no step and calls nothing.
C7_EmptyCatalog ==
    /\ (last.op = "generate_recommendation_prompt" /\ last.available_solutions = <<>>)
           => ~last.prompt.built
    /\ (LastIsRequest /\ last.available_solutions = <<>>)
           => /\ last.result.returned = <<>>
              /\ ~last.result.raised
              /\ last.result.invoked = 0
              /\ last.result.steps = <<>>

\* a request with an empty catalog for a key whose entry is stored
C7_Witness ==
    /\ LastIsRequest
    /\ last.available_solutions = <<>>
    /\ Truthy(last.company_data)
    /\ LastKey \in DOMAIN recommendation_cache

\* ------------------------------------------------------------------------
\* Properties of parse_recommendations (checked under SpecParse)
\* ------------------------------------------------------------------------

Items == available_solutions_dict(catalog)

Records1 == Strategy1(recommendation_text, Items)

Records2 == Strategy2(recommendation_text, Items)

Records3 == Strategy3(recommendation_text, Items)

FirstFive(recs) == [k \in 1..Min(5, Len(recs)) |-> recs[k]]

\* C8: the output is made of strategy 1's records when it extracts any, else of
\* strategy 2's when it extracts any, else of strategy 3's.
C8_FirstNonEmptyWins ==
    ~parsed.raised
        => /\ Records1 # <<>> => parsed.value = FirstFive(Records1)
           /\ (Records1 = <<>> /\ Records2.recommendations # <<>>)
                  => parsed.value = FirstFive(Records2.recommendations)
           /\ (Records1 = <<>> /\ Records2.recommendations = <<>>)
                  => parsed.value = FirstFive(Records3)

\* strategy 2 won on a text from which strategy 3 extracts other records
C8_Witness ==
    /\ ~parsed.raised
    /\ Records1 = <<>>
    /\ Records2.recommendations # <<>>
    /\ Records3 # <<>>
    /\ parsed.value = FirstFive(Records2.recommendations)
    /\ parsed.value # FirstFive(Records3)

Winner ==
    IF Records1 # <<>> THEN Records1
    ELSE IF Records2.recommendations # <<>> THEN Records2.recommendations
    ELSE Records3

\* recs are at most five records, the first five of winner
FirstFiveOf(recs, winner) ==
    /\ Len(recs) <= 5
    /\ Len(recs) = Min(5, Len(winner))
    /\ \A k \in 1..Len(recs) : recs[k] = winner[k]

\* C9: at most five records are returned, the first five of the winning
\* strategy in extraction order.
C9_CappedAtFive == ~parsed.raised => FirstFiveOf(parsed.value, Winner)

\* six candidates were extracted and five returned
C9_Witness ==
    /\ ~parsed.raised
    /\ Len(Winner) > 5
    /\ Len(parsed.value) = 5
    /\ Winner[6] # Winner[5]

\* C10: parse_recommendations returns a list and never raises.
C10_NeverRaises == ~parsed.raised

\* the response with every "[" and "]" taken out
RemoveBrackets(text) == SelectSeq(text, LAMBDA c : c \notin {"[", "]"})

\* the response is in the strict format: its first line is "1. [Name]: x" and
\* every later line k is "k. [Name]: x" or continues the justification above it
StrictFormat ==
    /\ recommendation_text # <<>>
    /\ Lines(recommendation_text)[1] = StrictLine(1)
    /\ \A k \in 2..Len(Lines(recommendation_text)) :
           Lines(recommendation_text)[k] \in {StrictLine(k), <<"w">>}

RecordsWithoutBrackets == Strategy2(RemoveBrackets(recommendation_text), Items)

\* C11: on a response in the strict format, strategy 2 applied to the response
\* without its brackets yields the records strategy 1 yields on the response:
\* same count, order, number, name, justification, exact_match, solution_data.
C11_BracketlessEquivalent ==
    StrictFormat
        => /\ ~RecordsWithoutBrackets.raised
           /\ RecordsWithoutBrackets.recommendations = Records1

\* the positions (from 1) of the lines that are not blank and hold a colon
ColonLineNumbers ==
    {n \in 1..Len(Lines(recommendation_text)) :
        /\ strip(Lines(recommendation_text)[n]) # <<>>
        /\ \E p \in 1..Len(Lines(recommendation_text)[n]) :
               Lines(recommendation_text)[n][p] = ":"}

\* the k-th smallest element of a set of numbers
Nth(S, k) == CHOOSE x \in S : Cardinality({y \in S : y <= x}) = k

FirstColon(line) == CHOOSE p \in 1..Len(line) : line[p] = ":" /\ \A q \in 1..(p - 1) : line[q] # ":"

\* the text before and after the first colon of a line, without the blanks
\* around it
NamePart(line) == strip(SubSeq(line, 1, FirstColon(line) - 1))

JustificationPart(line) == strip(SubSeq(line, FirstColon(line) + 1, Len(line)))

NeitherStructure ==
    Records1 = <<>> /\ ~Records2.raised /\ Records2.recommendations = <<>>

\* C12: when strategies 1 and 2 extract nothing, strategy 3 yields, before the
\* cap, one record for every non-blank line with a colon, in line order; the
\* record carries the line's position as its number, the text after the first
\* colon as its justification, and is resolved from the text before it.
C12_OneRecordPerColonLine ==
    NeitherStructure
        => /\ Len(Records3) = Cardinality(ColonLineNumbers)
           /\ \A k \in 1..Len(Records3) :
                  LET n    == Nth(ColonLineNumbers, k)
                      line == Lines(recommendation_text)[n]
                  IN  /\ Records3[k].number = str(n)
                      /\ Records3[k].justification = JustificationPart(line)
                      /\ Records3[k] = Recommendation(str(n), NamePart(line),
                                                      lower(NamePart(line)),
                                                      JustificationPart(line), Items)

\* the first line holds no colon and the second holds two: one record,
\* numbered 2, split at the first colon
C12_Witness ==
    /\ NeitherStructure
    /\ Len(Lines(recommendation_text)) = 2
    /\ ColonLineNumbers = {2}
    /\ Len(Records3) = 1
    /\ Records3[1].number = <<"2">>
    /\ Records3[1].justification = <<"z", ":", "w">>

\* ------------------------------------------------------------------------
\* Properties of the entity resolution (checked under SpecParse)
\* ------------------------------------------------------------------------

\* The candidate names of a strategy are the names of the records it yields
\* against the empty catalog, where nothing is resolved.
Candidates1 == Strategy1(recommendation_text, <<>>)

Candidates2 == Strategy2(recommendation_text, <<>>).recommendations

Candidates3 == Strategy3(recommendation_text, <<>>)

\* the catalog records whose name equals the name, letter case aside
SameName(name) ==
    {i \in 1..Len(catalog) : lower(get(catalog[i], NomeSolucao, <<>>)) = lower(name)}

\* the catalog records whose name contains the name or is contained in it
Containing(name) ==
    {i \in 1..Len(catalog) :
        \/ Contains(lower(name), lower(get(catalog[i], NomeSolucao, <<>>)))
        \/ Contains(lower(get(catalog[i], NomeSolucao, <<>>)), lower(name))}

\* recs are the records resolved from the candidates cands: a record is exact
\* exactly when a catalog record has the candidate's name, and is then one of
\* the catalog records with that name
ExactWins(recs, cands) ==
    /\ Len(recs) = Len(cands)
    /\ \A k \in 1..Len(recs) :
           /\ recs[k].exact_match <=> SameName(cands[k].solution_name) # {}
           /\ recs[k].exact_match
                  => \E i \in SameName(cands[k].solution_name) :
                         /\ recs[k].solution_data = catalog[i]
                         /\ recs[k].solution_name = get(catalog[i], NomeSolucao, <<>>)

\* C13: in each of the three strategies a candidate whose name equals a catalog
\* name, letter case aside, is resolved as exact to a catalog record of that
\* name, whatever other catalog names contain it or are contained in it; and
\* no other candidate is resolved as exact.
C13_ExactMatchWins ==
    /\ ExactWins(Records1, Candidates1)
    /\ ~Records2.raised => ExactWins(Records2.recommendations, Candidates2)
    /\ ExactWins(Records3, Candidates3)

\* strategies 1 and 2 each resolve a candidate "Ab" to the record "Ab", the
\* second of a catalog whose first record "abc" contains the candidate
C13_Witness ==
    /\ catalog = <<Sol_abc, Sol_Ab>>
    /\ ~Records2.raised
    /\ \E k \in 1..Len(Records1) :
           /\ Candidates1[k].solution_name = <<"A", "b">>
           /\ 1 \in Containing(Candidates1[k].solution_name)
           /\ Records1[k].exact_match
           /\ Records1[k].solution_data = Sol_Ab
    /\ \E k \in 1..Len(Candidates2) :
           /\ Candidates2[k].solution_name = <<"A", "b">>
           /\ Records2.recommendations[k].exact_match
           /\ Records2.recommendations[k].solution_data = Sol_Ab
    /\ \E k \in 1..Len(parsed.value) : parsed.value[k].exact_match

\* the candidates behind the records parse_recommendations returns: those of
\* the first strategy that extracts any (the count of a strategy's records does
\* not depend on the catalog)
WinnerCandidates ==
    IF Candidates1 # <<>> THEN Candidates1
    ELSE IF Candidates2 # <<>> THEN Candidates2
    ELSE Candidates3

\* the record a candidate name is kept as when nothing in the catalog matches
Synthetic(name) == (NomeSolucao :> name)

\* recs are the records returned for the candidates cands: each carries a
\* catalog record or the synthetic record of its candidate, and the synthetic
\* record with the candidate's own name where nothing in the catalog matches
KeptAs(recs, cands) ==
    /\ Len(recs) = Min(5, Len(cands))
    /\ \A k \in 1..Len(recs) :
           /\ \/ \E i \in 1..Len(catalog) : recs[k].solution_data = catalog[i]
              \/ recs[k].solution_data = Synthetic(cands[k].solution_name)
           /\ DOMAIN recs[k].solution_data # {}
           /\ Containing(cands[k].solution_name) = {}
                  => /\ ~recs[k].exact_match
                     /\ recs[k].solution_name = cands[k].solution_name
                     /\ recs[k].solution_data = Synthetic(cands[k].solution_name)

\* C14: every record parse_recommendations returns carries solution data, a
\* record of the catalog or the synthetic record of the candidate's name; a
\* candidate whose name no catalog name equals, contains or is contained in is
\* returned with exact_match false, its own name and the synthetic record.
C14_UnresolvedKept == ~parsed.raised => KeptAs(parsed.value, WinnerCandidates)

\* against a catalog with records, a returned list holds a candidate "zz" kept
\* as it is next to a candidate resolved to a catalog record
C14_Witness ==
    /\ ~parsed.raised
    /\ catalog # <<>>
    /\ \E k \in 1..Len(parsed.value) :
           /\ WinnerCandidates[k].solution_name = <<"z", "z">>
           /\ Containing(<<"z", "z">>) = {}
           /\ parsed.value[k].solution_data = Synthetic(<<"z", "z">>)
    /\ \E k \in 1..Len(parsed.value) :
           \E i \in 1..Len(catalog) : parsed.value[k].solution_data = catalog[i]

\* a candidate resolved by containment alone, and one that matches nothing
Fuzzy(name) == SameName(name) = {} /\ Containing(name) # {}

Unresolved(name) == Containing(name) = {}

\* C15: the flag a returned record carries tells a record resolved only by
\* containment from a record that matched no catalog record.  The records
\* carry one flag, exact_match.
C15_FuzzyDistinctFromUnresolved ==
    ~parsed.raised
        => \A j, k \in 1..Len(parsed.value) :
               (Fuzzy(WinnerCandidates[j].solution_name)
                    /\ Unresolved(WinnerCandidates[k].solution_name))
                   => parsed.value[j].exact_match # parsed.value[k].exact_match

\* ------------------------------------------------------------------------
\* Properties of calculate_solution_adherence (checked under Spec)
\* ------------------------------------------------------------------------

\* the last operation asked the service for scores and got a response
AdherenceScored ==
    last.op = "calculate_solution_adherence" /\ last.result.how = "scored"

\* what the response states for the n-th sampled company
Stated(n) == search_adherence(strip(last.service.content), str(n))

\* the entries returned under the name of the n-th sampled company
EntriesOf(n) ==
    {k \in 1..Len(last.result.returned) :
        last.result.returned[k].company_name = AdherenceName(Sampled[n], n)}

\* C16: after a response, every sampled company whose score cannot be
\* extracted has score 0 and the justification "Não foi possível calcular a
\* aderência.", every other sampled company has the score and justification
\* extracted for it, and the call does not raise.
C16_MissingScoresDefaulted ==
    AdherenceScored
        => /\ ~last.result.raised
           /\ \A n \in 1..Len(Sampled) :
                  \E k \in EntriesOf(n) :
                      IF Stated(n).ok
                      THEN /\ last.result.returned[k].score = int(Stated(n).score)
                           /\ last.result.returned[k].justification
                                  = strip(Stated(n).justification)
                      ELSE /\ last.result.returned[k].score = 0
                           /\ last.result.returned[k].justification = NaoFoiPossivel

\* C17: every score calculate_solution_adherence returns is an integer of
\* 0..10, whatever the response states.
C17_ScoresInRange ==
    last.op = "calculate_solution_adherence"
        => \A k \in 1..Len(last.result.returned) : last.result.returned[k].score \in 0..10

\* the position in the input of the first sampled company with the name of the
\* k-th returned entry
InputPosition(k) ==
    CHOOSE n \in 1..Len(Sampled) :
        /\ AdherenceName(Sampled[n], n) = last.result.returned[k].company_name
        /\ \A m \in 1..(n - 1) :
               AdherenceName(Sampled[m], m) # last.result.returned[k].company_name

\* C18: the entries calculate_solution_adherence returns are in descending
\* order of score, entries of equal score in the input order of their
\* companies.
C18_DescendingScore ==
    last.op = "calculate_solution_adherence"
        => \A j, k \in 1..Len(last.result.returned) :
               j < k => \/ last.result.returned[j].score > last.result.returned[k].score
                        \/ /\ last.result.returned[j].score = last.result.returned[k].score
                           /\ InputPosition(j) < InputPosition(k)

\* ------------------------------------------------------------------------
\* Properties of combine_solutions (checked under SpecCombine)
\* ------------------------------------------------------------------------

\* the last operation was combine_solutions and it returned a catalog
CatalogReturned ==
    data_integration.op = "combine_solutions" /\ ~data_integration.returned.none

\* the (name, source) pair of a row, letter case aside
KeyOf(row) == <<lower(Cell(row, NomeSolucao)), lower(Cell(row, "Fonte"))>>

\* C19: in the catalog combine_solutions returns, whichever sources are present,
\* no two records have the same (name, source) pair, letter case aside.
C19_UniqueNameSource ==
    CatalogReturned
        => \A j, k \in 1..Len(data_integration.returned.rows) :
               KeyOf(data_integration.returned.rows[j]) = KeyOf(data_integration.returned.rows[k])
                   => j = k

\* a source that holds rows
Present(df) == ~df.none /\ Len(df.rows) > 0

\* the rows of the sources in the order of the merge: the spreadsheet's, then
\* the web's (the spreadsheet as load_solutions_from_excel stored it)
SourceRows ==
    data_integration.solutions_data.rows \o data_integration.web_solutions.rows

\* the columns a merge keeps
MergeColumns == ExcelCols \cup WebCols

\* the cells of a row in the columns a merge keeps, an absent cell taken as ''
Shown(row) ==
    [col \in MergeColumns |-> IF Cell(row, col) = Null THEN <<>> ELSE row[col]]

\* the (name, source) pair of a row as it is written
ExactKey(row) == <<Shown(row)[NomeSolucao], Shown(row)["Fonte"]>>

\* the rows of result from the i-th on are, in their order, among the rows of
\* source from the j-th on
RECURSIVE Embeds(_, _, _, _)
Embeds(result, source, i, j) ==
    IF i > Len(result) THEN TRUE
    ELSE IF j > Len(source) THEN FALSE
    ELSE IF Shown(result[i]) = Shown(source[j]) THEN Embeds(result, source, i + 1, j + 1)
    ELSE Embeds(result, source, i, j + 1)

\* the first row of rows that has the key of row
FirstWithKey(rows, row) ==
    rows[CHOOSE i \in 1..Len(rows) :
             /\ ExactKey(rows[i]) = ExactKey(row)
             /\ \A h \in 1..(i - 1) : ExactKey(rows[h]) # ExactKey(row)]

\* C20: a second run of combine_solutions on the same spreadsheet and web
\* catalogs returns what the first run returned, rows and cells and order; and
\* the rows returned are rows of the spreadsheet followed by rows of the web,
\* each in the order of its source, with the first row of every (name, source)
\* pair among them.
C20_RepeatableInSourceOrder ==
    CatalogReturned
        => /\ data_integration.runs >= 2
                  => data_integration.returned = data_integration.previous
           /\ Embeds(data_integration.returned.rows, SourceRows, 1, 1)
           /\ \A j \in 1..Len(SourceRows) :
                  /\ \E i \in 1..Len(data_integration.returned.rows) :
                         ExactKey(data_integration.returned.rows[i]) = ExactKey(SourceRows[j])
                  /\ Shown(FirstWithKey(data_integration.returned.rows, SourceRows[j]))
                         = Shown(FirstWithKey(SourceRows, SourceRows[j]))

\* a second run on a spreadsheet and a web list that both hold rows, from which
\* the merge drops a repeated pair of each
C20_Witness ==
    /\ CatalogReturned
    /\ data_integration.runs = 2
    /\ Present(data_integration.solutions_data)
    /\ Present(data_integration.web_solutions)
    /\ \E j, k \in 1..Len(data_integration.solutions_data.rows) :
           j < k /\ ExactKey(data_integration.solutions_data.rows[j])
                        = ExactKey(data_integration.solutions_data.rows[k])
    /\ \E j, k \in 1..Len(data_integration.web_solutions.rows) :
           j < k /\ ExactKey(data_integration.web_solutions.rows[j])
                        = ExactKey(data_integration.web_solutions.rows[k])
    /\ Len(data_integration.returned.rows) < Len(SourceRows)
    /\ data_integration.returned = data_integration.previous

\* every record of the frame has a cell that is not null in each of the
\* required columns
Complete(df) ==
    \A k \in 1..Len(df.rows) :
        \A col \in RequiredColumns : col \in DOMAIN df.rows[k] /\ df.rows[k][col] # Null

\* C21: every record of the catalog combine_solutions returns and stores has a
\* name, a description, a modality, a theme and a source that are not null,
\* whichever sources are present.
C21_RequiredFieldsNotNull ==
    CatalogReturned
        => /\ Complete(data_integration.returned)
           /\ Complete(data_integration.combined_solutions)

\* the row has a value in the column: the cell is there, not null and not ''
Has(row, col) == Cell(row, col) # Null /\ row[col] # <<>>

\* the values that the source records of the given name have in the column
ValuesOf(name, col) ==
    {SourceRows[j][col] : j \in {h \in 1..Len(SourceRows) :
                                     /\ Cell(SourceRows[h], NomeSolucao) = name
                                     /\ Has(SourceRows[h], col)}}

\* C22: when two source records have the same name and one of them lacks a
\* required field that the other one has, every record of that name in the
\* catalog combine_solutions returns has the field, with a value the source
\* records of that name have.
C22_BackfilledFromSameName ==
    CatalogReturned
        => \A i, j \in 1..Len(SourceRows) : \A col \in RequiredColumns :
               /\ Cell(SourceRows[i], NomeSolucao) = Cell(SourceRows[j], NomeSolucao)
               /\ ~Has(SourceRows[i], col)
               /\ Has(SourceRows[j], col)
               => \A k \in 1..Len(data_integration.returned.rows) :
                      Cell(data_integration.returned.rows[k], NomeSolucao)
                              = Cell(SourceRows[i], NomeSolucao)
                          => Cell(data_integration.returned.rows[k], col)
                                 \in ValuesOf(Cell(SourceRows[i], NomeSolucao), col)

\* ------------------------------------------------------------------------
\* Properties of the stage translation (checked under SpecStage)
\* ------------------------------------------------------------------------

\* the name of the stage with code n, or "Estágio n" for a code outside the table
StageName(n) ==
    IF n \in 1..5 THEN PyStr(stage_mapping[n]) ELSE PyStr(Estagio \o str(n))

\* the stage names of the codes of the loaded sheet
SheetStages ==
    {StageName(radar.radar_data.rows[k]["Encontro"].number) :
         k \in 1..Len(radar.radar_data.rows)}

\* C23: a stage code from 1 to 5 is shown as its name of the table and any
\* other code N as "Estágio N", in the frame preprocess_radar_data returns, in
\* the options of the stage filter and in the stage chart.
C23_StageNameOrPlaceholder ==
    "Encontro" \in radar.radar_data.columns /\ ~radar.radar_processed.none
        => /\ \A k \in 1..Len(radar.radar_processed.rows) :
                  radar.radar_processed.rows[k]["Estágio do diagnóstico"]
                      = StageName(radar.radar_data.rows[k]["Encontro"].number)
           /\ radar.op = "main" /\ ~radar.raised
                  => {radar.estagios[i] : i \in 2..Len(radar.estagios)} = SheetStages
           /\ radar.op = "plot_companies_by_stage" /\ ~radar.raised
                  => DOMAIN radar.stage_counts = SheetStages

\* ------------------------------------------------------------------------
\* Properties of parse_course_suggestions (checked under Spec)
\* ------------------------------------------------------------------------

\* the last call was suggest_new_courses and the service answered
CoursesSuggested ==
    last.op = "suggest_new_courses" /\ last.result.how = "suggested"

\* the text handed to parse_course_suggestions
SuggestionsText == strip(last.service.content)

\* what the bracket pattern extracts from that text
PrimaryMatches == findall_courses(SuggestionsText, 1)

\* the numbered sections of that text
NumberedSections == Tail(re_split(SuggestionsText, 1, 1))

\* the text of the k-th suggestion after its name
DetailsOf(k) ==
    IF PrimaryMatches # <<>> THEN PrimaryMatches[k].details ELSE NumberedSections[k]

\* the text that follows the label in the details, up to the end of its line,
\* without the blanks around it; "" when the label is not there
FollowsLabel(details, label) ==
    IF ~Contains(label, details) THEN <<>>
    ELSE LET from == FindFrom(label, details, 1) + Len(label)
             nl == FindFrom(<<NL>>, details, from)
         IN  strip(SubSeq(details, from, IF nl = 0 THEN Len(details) ELSE nl - 1))

\* C24: parse_course_suggestions returns the records of the bracket pattern when
\* it extracts a suggestion, else one record per numbered section; every record
\* has number, name, modalidade, tema, descricao and justificativa, and each of
\* the four labelled fields is the text that follows its label in the
\* suggestion, "" when the label is absent.
C24_LabelledFields ==
    CoursesSuggested
        => /\ PrimaryMatches # <<>> => last.result.returned = FromCourseMatches(PrimaryMatches)
           /\ PrimaryMatches = <<>> => Len(last.result.returned) = Len(NumberedSections)
           /\ \A k \in 1..Len(last.result.returned) :
                  /\ DOMAIN last.result.returned[k]
                         = {"number", "name", "modalidade", "tema", "descricao", "justificativa"}
                  /\ last.result.returned[k].modalidade = FollowsLabel(DetailsOf(k), Modalidade)
                  /\ last.result.returned[k].tema = FollowsLabel(DetailsOf(k), Tema)
                  /\ last.result.returned[k].descricao = FollowsLabel(DetailsOf(k), Descricao)
                  /\ last.result.returned[k].justificativa
                         = FollowsLabel(DetailsOf(k), Justificativa)

\* ------------------------------------------------------------------------
\* Properties of interleaved requests (checked under SpecInterleave)
\* ------------------------------------------------------------------------

\* C25: when two get_recommendations requests for the same key on one
\* RecommendationSystem interleave, the completion service is invoked only
\* once for the key: no two callers wait for the service with the same key,
\* each having found no cache entry.
C25_OneInvocationPerKey ==
    \A t1 \in Callers, t2 \in Callers :
        (t1 # t2 /\ in_flight[t1].pc = "create" /\ in_flight[t2].pc = "create")
            => cache_key_of(in_flight[t1].company_data)
                   # cache_key_of(in_flight[t2].company_data)

\* ------------------------------------------------------------------------
\* Properties of the partial pass (checked under SpecParse)
\* ------------------------------------------------------------------------

\* the first catalog record, in catalog order, in containment with the name
FirstContaining(name) == CHOOSE i \in Containing(name) : \A j \in Containing(name) : i <= j

\* C26: a candidate resolved by the partial pass is returned with the first
\* record in catalog order whose lower-cased name contains the lower-cased
\* candidate or is contained in it, and with that record's name, also when
\* several catalog records share a name.
C26_FirstInCatalogOrder ==
    ~parsed.raised
        => \A k \in 1..Len(parsed.value) :
               Fuzzy(WinnerCandidates[k].solution_name)
                   => /\ parsed.value[k].solution_data
                             = catalog[FirstContaining(WinnerCandidates[k].solution_name)]
                      /\ parsed.value[k].solution_name
                             = get(catalog[FirstContaining(WinnerCandidates[k].solution_name)],
                                   NomeSolucao, <<>>)

\* ------------------------------------------------------------------------
\* Properties of the cache key (checked under Spec)
\* ------------------------------------------------------------------------

\* C27: requests whose (company name, challenge) pairs differ never read or
\* write the same cache entry.  An entry is written only after a completion
\* call of the writing request, so a request served from the cache reads an
\* entry of its own pair only if the service was invoked for that pair since
\* the cache was created or cleared.
C27_EntryOfOwnPair ==
    (LastIsRequest /\ last.result.how = "cache_hit") => api_calls[LastPair] > 0

\* ------------------------------------------------------------------------
\* Properties of the returned records and the catalog (checked under
\* SpecInterleave)
\* ------------------------------------------------------------------------

\* a returned record that carries a catalog record, not the synthetic record
\* of its own name
ResolvedRecord(rec) == rec.solution_data # Synthetic(rec.solution_name)

\* C28: every record a get_recommendations call returns as resolved carries a
\* record of the catalog passed to that call, also when an earlier request
\* with the same key passed another catalog and the cache was not cleared.
C28_RefersToCatalogOfCall ==
    LastIsRequest
        => \A k \in 1..Len(last.result.returned) :
               ResolvedRecord(last.result.returned[k])
                   => \E i \in 1..Len(last.available_solutions) :
                          last.available_solutions[i] = last.result.returned[k].solution_data

\* ------------------------------------------------------------------------
\* Properties of the adherence entries (checked under Spec)
\* ------------------------------------------------------------------------

\* "Empresa", blanks and the number at p, with no further digit: the anchor of
\* the entry of the company with that number
OwnAnchor(t, p, number) ==
    /\ AtEmpresa(t, p)
    /\ RunEnd(t, p + 7, Whitespace) > p + 7
    /\ Slice(t, RunEnd(t, p + 7, Whitespace),
             RunEnd(t, p + 7, Whitespace) + Len(number) - 1) = number
    /\ Slice(t, RunEnd(t, p + 7, Whitespace) + Len(number),
             RunEnd(t, p + 7, Whitespace) + Len(number)) \notin {<<d>> : d \in Digit}

\* where the entry anchored at p ends: before the next "Empresa", or with the text
EntryEnd(t, p) ==
    CHOOSE q \in (p + 1)..(Len(t) + 1) :
        /\ q = Len(t) + 1 \/ AtEmpresa(t, q)
        /\ \A r \in (p + 1)..(q - 1) : ~AtEmpresa(t, r)

\* the score and justification stated inside the entry anchored at p
EntryStated(t, p, number) ==
    IF OwnAnchor(t, p, number)
    THEN search_adherence(SubSeq(t, p, EntryEnd(t, p) - 1), number)
    ELSE NoMatch

\* what the response states in the entry of the n-th sampled company
OwnStated(n) ==
    FirstOk([p \in 1..Len(strip(last.service.content)) |->
                 EntryStated(strip(last.service.content), p, str(n))],
            1, Len(strip(last.service.content)))

\* no other sampled company has the name of the n-th
UniqueName(n) ==
    \A m \in 1..Len(Sampled) :
        m # n => AdherenceName(Sampled[m], m) # AdherenceName(Sampled[n], n)

\* C29: the score and justification recorded for the i-th sampled company are
\* those stated in the response entry anchored "Empresa i", never those of
\* another company's entry: where that entry states a score the company has
\* that score and justification, and where it states none, or there is no such
\* entry, the company has the default.
C29_ScoreOfOwnEntry ==
    AdherenceScored
        => \A n \in 1..Len(Sampled) :
               UniqueName(n)
                   => \A k \in EntriesOf(n) :
                          IF OwnStated(n).ok
                          THEN /\ last.result.returned[k].score = int(OwnStated(n).score)
                               /\ last.result.returned[k].justification
                                      = strip(OwnStated(n).justification)
                          ELSE /\ last.result.returned[k].score = 0
                               /\ last.result.returned[k].justification = NaoFoiPossivel

\* C30: the map calculate_solution_adherence returns, after a response and
\* after a service failure alike, has exactly one entry for each of the first
\* min(n, 10) companies passed in: as many entries as sampled companies, and
\* for each sampled company the entry under its name.
C30_OneEntryPerCompany ==
    (last.op = "calculate_solution_adherence"
         /\ last.result.how \in {"scored", "service_error"})
        => /\ Len(last.result.returned) = Len(Sampled)
           /\ \A n \in 1..Len(Sampled) : Cardinality(EntriesOf(n)) = 1

====
